---- MODULE Spec2Model ----
(***************************************************************************)
(* amakaflow-fitfiletool: the name-to-category resolver (garmin_lookup.py) *)
(* and the step compiler / exporter (fit_builder.py).                      *)
(*                                                                         *)
(* Python strings that the code parses character by character (exercise   *)
(* names, textual reps, structure labels, display names) are sequences of  *)
(* one-character strings.  An optional number is <<>> (None / key absent)  *)
(* or <<n>>.  Enumerated strings that are only compared ('timed',          *)
(* 'button', match kinds, step types) are TLA+ strings, "None" when absent.*)
(* Step indices keep Python's 0-based values: step i is steps[i + 1].      *)
(* preview.py (get_preview_steps) and fit_parser.py (parse_fit_file) read  *)
(* the compiled list and the records of a file.                            *)
(* objects holds the GarminExerciseLookup objects constructed so far, in   *)
(* order of construction; instance is the index of the one the module      *)
(* global _lookup refers to, 0 for None.                                   *)
(***************************************************************************)
EXTENDS Integers, Sequences, FiniteSets, TLC

VARIABLES blocks_json, use_lap_button, garmin_exercises, _lookup,
          steps, category_ids_used, fit, pc,
          preview_steps, fitfile, workout_data, args, result,
          objects, instance, callers

vars == <<blocks_json, use_lap_button, garmin_exercises, _lookup,
          steps, category_ids_used, fit, pc,
          preview_steps, fitfile, workout_data, args, result,
          objects, instance, callers>>

\* what the preview, the decompiler and the direct calls of the pure
\* functions read and return, and the position of each caller inside
\* get_lookup
others == <<preview_steps, fitfile, workout_data, args, result, callers>>

---------------------------------------------------------------------------
(* Python values *)

None == <<>>

Some(n) == <<n>>

Val(x) == x[1]

\* Python truthiness of an optional number: None and 0 are false.
Truthy(x) == x # None /\ Val(x) # 0

Min2(a, b) == IF a <= b THEN a ELSE b

SetMin(S) == CHOOSE x \in S : \A y \in S : x <= y

---------------------------------------------------------------------------
(* Characters and strings *)

DIGITS == <<"0", "1", "2", "3", "4", "5", "6", "7", "8", "9">>

UPPER == <<"A", "B", "C", "D", "E", "F", "G", "H", "I", "J", "K", "L", "M", "N", "O", "P", "Q", "R", "S", "T", "U", "V", "W", "X", "Y", "Z">>

LOWER == <<"a", "b", "c", "d", "e", "f", "g", "h", "i", "j", "k", "l", "m", "n", "o", "p", "q", "r", "s", "t", "u", "v", "w", "x", "y", "z">>

DigitSet == {DIGITS[i] : i \in 1..Len(DIGITS)}

DigitDotSet == DigitSet \cup {"."}

SpaceSet == {" "}

LowerSet == {LOWER[i] : i \in 1..Len(LOWER)}

UpperSet == {UPPER[i] : i \in 1..Len(UPPER)}

DigitVal(c) == (CHOOSE i \in 1..Len(DIGITS) : DIGITS[i] = c) - 1

\* str.lower() on one character
LowerChar(c) == IF c \in UpperSet THEN LOWER[CHOOSE i \in 1..Len(UPPER) : UPPER[i] = c] ELSE c

Lower(s) == [i \in 1..Len(s) |-> LowerChar(s[i])]

\* last index of the run of characters of C that starts at i (i - 1 when empty)
RunEnd(s, i, C) ==
    IF i > Len(s) THEN i - 1
    ELSE CHOOSE j \in (i - 1)..Len(s) :
            /\ \A k \in i..j : s[k] \in C
            /\ (j = Len(s) \/ s[j + 1] \notin C)

\* first index of the run of characters of C that ends at j (j + 1 when empty)
RunStart(s, j, C) ==
    IF j < 1 THEN j + 1
    ELSE CHOOSE i \in 1..(j + 1) :
            /\ \A k \in i..j : s[k] \in C
            /\ (i = 1 \/ s[i - 1] \notin C)

Drop(s, n) == SubSeq(s, n + 1, Len(s))

Take(s, n) == SubSeq(s, 1, Min2(n, Len(s)))

\* str.strip(), str.rstrip(chars)
RStripSet(s, C) == Take(s, RunStart(s, Len(s), C) - 1)

Strip(s) == LET t == Drop(s, RunEnd(s, 1, SpaceSet)) IN RStripSet(t, SpaceSet)

MatchAt(s, i, p) ==
    /\ i >= 1
    /\ i + Len(p) - 1 <= Len(s)
    /\ \A j \in 1..Len(p) : s[i + j - 1] = p[j]

StartsWith(s, p) == MatchAt(s, 1, p)

\* Python's "p in s"
Contains(s, p) == \E i \in 1..(Len(s) - Len(p) + 1) : MatchAt(s, i, p)

\* str.split(): the maximal runs of non-whitespace characters
WordStarts(s) == {i \in 1..Len(s) : s[i] \notin SpaceSet /\ (i = 1 \/ s[i - 1] \in SpaceSet)}

\* value of a string of decimal digits
RECURSIVE DigitsValue(_)
DigitsValue(s) ==
    IF Len(s) = 0 THEN 0
    ELSE 10 * DigitsValue(Take(s, Len(s) - 1)) + DigitVal(s[Len(s)])

\* int(text): surrounding whitespace is ignored; anything but decimal digits
\* raises ValueError (ok = FALSE)
IntParse(text) ==
    LET t == Strip(text) IN
    IF Len(t) > 0 /\ \A i \in 1..Len(t) : t[i] \in DigitSet
    THEN [ok |-> TRUE, value |-> DigitsValue(t)]
    ELSE [ok |-> FALSE, value |-> 0]

RECURSIVE Pow10(_)
Pow10(n) == IF n = 0 THEN 1 ELSE 10 * Pow10(n - 1)

\* int(float(tok) * 10^p) for a decimal numeral tok (digits with at most one
\* point, which is what float() accepts of the text [\d.]+ matches); digits
\* beyond the p-th decimal place are truncated
FloatTimesPow10(tok, p) ==
    LET dots == {i \in 1..Len(tok) : tok[i] = "."}
        dot  == IF dots = {} THEN Len(tok) + 1 ELSE SetMin(dots)
        ip   == Take(tok, dot - 1)
        fp   == Take(Drop(tok, dot), p)
    IN  DigitsValue(ip) * Pow10(p) + DigitsValue(fp) * Pow10(p - Len(fp))

---------------------------------------------------------------------------
(* garmin_lookup.py *)

MAX_VALID_CATEGORY_ID == 32

\* a faulty INVALID_CATEGORY_FALLBACK: 33 is remapped to another invalid id
INVALID_CATEGORY_FALLBACK_chained ==
    (33 :> 40) @@ (34 :> 2) @@ (35 :> 2) @@ (36 :> 2) @@ (37 :> 2) @@ (38 :> 2) @@
    (39 :> 29) @@ (40 :> 29) @@ (41 :> 29) @@ (42 :> 29) @@ (43 :> 29)

INVALID_CATEGORY_FALLBACK ==
    (33 :> 2) @@ (34 :> 2) @@ (35 :> 2) @@ (36 :> 2) @@ (37 :> 2) @@ (38 :> 2) @@
    (39 :> 29) @@ (40 :> 29) @@ (41 :> 29) @@ (42 :> 29) @@ (43 :> 29)

\* a faulty validate_category_id: the remapping table is not consulted
validate_category_id_untabled(category_id) ==
    IF category_id <= MAX_VALID_CATEGORY_ID THEN category_id ELSE 29

validate_category_id(category_id) ==
    IF category_id <= MAX_VALID_CATEGORY_ID THEN category_id
    ELSE IF category_id \in DOMAIN INVALID_CATEGORY_FALLBACK
         THEN INVALID_CATEGORY_FALLBACK[category_id]
         ELSE 29

S_Cardio == <<"C", "a", "r", "d", "i", "o">>

S_Row == <<"R", "o", "w">>

S_TotalBody == <<"T", "o", "t", "a", "l", " ", "B", "o", "d", "y">>

S_Squat == <<"S", "q", "u", "a", "t">>

S_Core == <<"C", "o", "r", "e">>

Builtin(keyword, category_id, category_name, display_name) ==
    [keyword |-> keyword, category_id |-> category_id,
     category_name |-> category_name, display_name |-> display_name]

\* self.builtin_keywords, in the dictionary's iteration order
builtin_keywords == <<
    Builtin(<<"r", "u", "n">>, 2, S_Cardio,
            <<"R", "u", "n">>),
    Builtin(<<"r", "u", "n", "n", "i", "n", "g">>, 2, S_Cardio,
            <<"R", "u", "n">>),
    Builtin(<<"j", "o", "g">>, 2, S_Cardio,
            <<"R", "u", "n">>),
    Builtin(<<"s", "p", "r", "i", "n", "t">>, 2, S_Cardio,
            <<"R", "u", "n">>),
    Builtin(<<"s", "k", "i", " ", "e", "r", "g">>, 2, S_Cardio,
            <<"S", "k", "i", " ", "E", "r", "g">>),
    Builtin(<<"s", "k", "i", " ", "m", "o", "g", "u", "l">>, 2, S_Cardio,
            <<"S", "k", "i", " ", "E", "r", "g">>),
    Builtin(<<"s", "k", "i">>, 2, S_Cardio,
            <<"S", "k", "i", " ", "E", "r", "g">>),
    Builtin(<<"r", "o", "w", " ", "e", "r", "g">>, 23, S_Row,
            <<"R", "o", "w">>),
    Builtin(<<"r", "o", "w", "e", "r">>, 23, S_Row,
            <<"R", "o", "w">>),
    Builtin(<<"i", "n", "d", "o", "o", "r", " ", "r", "o", "w">>, 23, S_Row,
            <<"I", "n", "d", "o", "o", "r", " ", "R", "o", "w">>),
    Builtin(<<"a", "s", "s", "a", "u", "l", "t", " ", "b", "i", "k", "e">>, 2, S_Cardio,
            <<"A", "s", "s", "a", "u", "l", "t", " ", "B", "i", "k", "e">>),
    Builtin(<<"e", "c", "h", "o", " ", "b", "i", "k", "e">>, 2, S_Cardio,
            <<"E", "c", "h", "o", " ", "B", "i", "k", "e">>),
    Builtin(<<"a", "i", "r", " ", "b", "i", "k", "e">>, 2, S_Cardio,
            <<"A", "i", "r", " ", "B", "i", "k", "e">>),
    Builtin(<<"b", "i", "k", "e", " ", "e", "r", "g">>, 2, S_Cardio,
            <<"B", "i", "k", "e", " ", "E", "r", "g">>),
    Builtin(<<"b", "u", "r", "p", "e", "e">>, 29, S_TotalBody,
            <<"B", "u", "r", "p", "e", "e">>),
    Builtin(<<"w", "a", "l", "l", " ", "b", "a", "l", "l">>, 28, S_Squat,
            <<"W", "a", "l", "l", " ", "B", "a", "l", "l">>)
>>

\* GarminExerciseLookup.__init__: the tables of the data file and the
\* built-in keyword table
GarminExerciseLookup(data) ==
    [exercises |-> data.exercises,
     keywords |-> data.keywords,
     builtin_keywords |-> builtin_keywords]

\* get_lookup: the module-level singleton after the call
get_lookup(cur, data) == IF cur = None THEN Some(GarminExerciseLookup(data)) ELSE cur

\* the objects after a get_lookup call that runs alone: one more when
\* _lookup was None
Constructed(cur, objs, data) == IF cur = None THEN Append(objs, GarminExerciseLookup(data)) ELSE objs

\* the object _lookup refers to after a get_lookup call that runs alone
Referenced(cur, objs, ref) == IF cur = None THEN Len(objs) + 1 ELSE ref

EQUIPMENT_PREFIXES == <<
    <<"d", "b", " ">>,
    <<"k", "b", " ">>,
    <<"b", "b", " ">>,
    <<"s", "b", " ">>,
    <<"m", "b", " ">>,
    <<"t", "r", "x", " ">>,
    <<"c", "a", "b", "l", "e", " ">>,
    <<"b", "a", "n", "d", " ">>
>>

S_each == <<"e", "a", "c", "h">>

S_per == <<"p", "e", "r">>

S_side == <<"s", "i", "d", "e">>

S_arm == <<"a", "r", "m">>

S_leg == <<"l", "e", "g">>

S_m == <<"m">>

S_km == <<"k", "m">>

S_mi == <<"m", "i">>

\* re.sub(r'^[a-z]\d+[;:\s]+', '', name): a leading label such as "a1: "
StripLabel(s) ==
    LET d == RunEnd(s, 2, DigitSet)
        e == RunEnd(s, d + 1, {";", ":", " "})
    IN  IF Len(s) >= 1 /\ s[1] \in LowerSet /\ d >= 2 /\ e >= d + 1
        THEN Drop(s, e)
        ELSE s

\* for prefix in [...]: if name.startswith(prefix): name = name[len(prefix):]
RECURSIVE StripPrefixes(_, _)
StripPrefixes(s, k) ==
    IF k > Len(EQUIPMENT_PREFIXES) THEN s
    ELSE LET p == EQUIPMENT_PREFIXES[k]
         IN  StripPrefixes(IF StartsWith(s, p) THEN Drop(s, Len(p)) ELSE s, k + 1)

\* re.sub(r'\s*x\s*\d+.*$', '', name): cut at the leftmost "x<digits>"
StripMultiplier(s) ==
    LET X == {q \in 1..Len(s) :
                /\ s[q] = "x"
                /\ LET e == RunEnd(s, q + 1, SpaceSet)
                   IN  e + 1 <= Len(s) /\ s[e + 1] \in DigitSet}
    IN  IF X = {} THEN s
        ELSE Take(s, RunStart(s, SetMin(X) - 1, SpaceSet) - 1)

\* re.sub(r'\s+(each|per)\s+(side|arm|leg).*$', '', name)
StripPerSide(s) ==
    LET W == {w \in 2..Len(s) :
                /\ s[w - 1] \in SpaceSet
                /\ \E a \in {S_each, S_per} :
                     /\ MatchAt(s, w, a)
                     /\ LET e == RunEnd(s, w + Len(a), SpaceSet)
                        IN  /\ e >= w + Len(a)
                            /\ \E b \in {S_side, S_arm, S_leg} : MatchAt(s, e + 1, b)}
    IN  IF W = {} THEN s
        ELSE Take(s, RunStart(s, SetMin(W) - 1, SpaceSet) - 1)

\* re.sub(r'\s*[\d.]+\s*(m|km)\s*$', '', name): a distance at the end
StripTrailingDistance(s) ==
    LET e == RunStart(s, Len(s), SpaceSet) - 1
        u == IF e >= 2 /\ s[e - 1] = "k" THEN e - 1 ELSE e
        b == RunStart(s, u - 1, SpaceSet)
        d == RunStart(s, b - 1, DigitDotSet)
        p == RunStart(s, d - 1, SpaceSet)
    IN  IF e >= 1 /\ s[e] = "m" /\ d <= b - 1 THEN Take(s, p - 1) ELSE s

\* the index of the last character that ^[\d.]+\s*(unit|...)\s+ matches in s,
\* 0 when the pattern does not match
LeadingDistanceEnd(s, units) ==
    LET d == RunEnd(s, 1, DigitDotSet)
        b == RunEnd(s, d + 1, SpaceSet)
        U == {u \in units :
                /\ MatchAt(s, b + 1, u)
                /\ b + Len(u) + 1 <= Len(s)
                /\ s[b + Len(u) + 1] \in SpaceSet}
    IN  IF d >= 1 /\ U # {}
        THEN RunEnd(s, b + Len(CHOOSE u \in U : TRUE) + 1, SpaceSet)
        ELSE 0

\* re.sub(r'^[\d.]+\s*(m|km)\s+', '', name): a distance at the start
StripLeadingDistance(s) == Drop(s, LeadingDistanceEnd(s, {S_m, S_km}))

\* GarminExerciseLookup.normalize: lower and strip, cut trailing "|", then the
\* label, the equipment prefixes, the multiplier, the per-side suffix and the
\* distances, and strip again
normalize(name) ==
    Strip(StripLeadingDistance(StripTrailingDistance(StripPerSide(StripMultiplier(
        StripPrefixes(StripLabel(Strip(RStripSet(Strip(Lower(name)), {"|"}))), 1))))))

\* difflib.SequenceMatcher: length of the common run starting at a[i], b[j]
CommonLen(a, i, ahi, b, j, bhi) ==
    LET n == Min2(ahi - i, bhi - j) + 1
    IN  CHOOSE k \in 0..n :
            /\ \A t \in 0..(k - 1) : a[i + t] = b[j + t]
            /\ (k = n \/ a[i + k] # b[j + k])

\* find_longest_match: the longest block, earliest in a, then earliest in b
LongestMatch(a, alo, ahi, b, blo, bhi) ==
    LET T == {[i |-> i, j |-> j, k |-> CommonLen(a, i, ahi, b, j, bhi)] :
                i \in alo..ahi, j \in blo..bhi}
    IN  CHOOSE t \in T :
            \A u \in T :
                \/ u.k < t.k
                \/ u.k = t.k /\ (t.i < u.i \/ (t.i = u.i /\ t.j <= u.j))

\* get_matching_blocks: the total size of the matching blocks
RECURSIVE MatchingChars(_, _, _, _, _, _)
MatchingChars(a, alo, ahi, b, blo, bhi) ==
    IF alo > ahi \/ blo > bhi THEN 0
    ELSE LET m == LongestMatch(a, alo, ahi, b, blo, bhi)
         IN  IF m.k = 0 THEN 0
             ELSE m.k + MatchingChars(a, alo, m.i - 1, b, blo, m.j - 1)
                      + MatchingChars(a, m.i + m.k, ahi, b, m.j + m.k, bhi)

\* SequenceMatcher(None, a, b).ratio() = 2.0 * M / T as the fraction num / den
Ratio(a, b) ==
    IF Len(a) + Len(b) = 0 THEN [num |-> 1, den |-> 1]
    ELSE [num |-> 2 * MatchingChars(a, 1, Len(a), b, 1, Len(b)), den |-> Len(a) + Len(b)]

RatioGreater(r, q) == r.num * q.den > q.num * r.den

\* ratio > 0.6
AboveThreshold(r) == 10 * r.num > 6 * r.den

\* the index of the first dictionary key with the highest ratio among those
\* above the threshold, 0 when there is none (lines 192-216)
BestFuzzy(ex, normalized) ==
    LET R(i) == Ratio(normalized, ex[i].key)
        F == {i \in 1..Len(ex) : AboveThreshold(R(i))}
    IN  IF F = {} THEN 0
        ELSE SetMin({i \in F : \A j \in F : ~RatioGreater(R(j), R(i))})

Found(info, exercise_name_id, match_type, normalized) ==
    [category_id |-> IF match_type = "builtin_keyword" THEN info.category_id
                     ELSE validate_category_id(info.category_id),
     category_name |-> info.category_name,
     display_name |-> info.display_name,
     exercise_name_id |-> exercise_name_id,
     match_type |-> match_type,
     normalized |-> normalized]

\* a faulty FindNormalized: an exact dictionary key wins over a built-in
\* keyword
FindNormalizedExactFirst(lookup, normalized) ==
    LET bk == lookup.builtin_keywords
        B  == {i \in 1..Len(bk) : Contains(normalized, bk[i].keyword)}
        ex == lookup.exercises
        E  == {i \in 1..Len(ex) : ex[i].key = normalized}
        kw == lookup.keywords
        K  == {i \in 1..Len(kw) : Contains(normalized, kw[i].keyword)}
        best == BestFuzzy(ex, normalized)
    IN  IF E # {}
        THEN Found(ex[SetMin(E)], ex[SetMin(E)].exercise_name_id, "exact", normalized)
        ELSE IF B # {} THEN Found(bk[SetMin(B)], None, "builtin_keyword", normalized)
        ELSE IF K # {} THEN Found(kw[SetMin(K)], None, "keyword", normalized)
        ELSE IF best # 0
            THEN Found(ex[best], ex[best].exercise_name_id, "fuzzy", normalized)
        ELSE
            [category_id |-> 5,
             category_name |-> S_Core,
             display_name |-> None,
             exercise_name_id |-> None,
             match_type |-> "default",
             normalized |-> normalized]

\* a faulty FindNormalized: an unmatched name gets category 0 (bench press)
FindNormalizedDefaultZero(lookup, normalized) ==
    LET bk == lookup.builtin_keywords
        B  == {i \in 1..Len(bk) : Contains(normalized, bk[i].keyword)}
        ex == lookup.exercises
        E  == {i \in 1..Len(ex) : ex[i].key = normalized}
        kw == lookup.keywords
        K  == {i \in 1..Len(kw) : Contains(normalized, kw[i].keyword)}
        best == BestFuzzy(ex, normalized)
    IN  IF B # {} THEN Found(bk[SetMin(B)], None, "builtin_keyword", normalized)
        ELSE IF E # {}
            THEN Found(ex[SetMin(E)], ex[SetMin(E)].exercise_name_id, "exact", normalized)
        ELSE IF K # {} THEN Found(kw[SetMin(K)], None, "keyword", normalized)
        ELSE IF best # 0
            THEN Found(ex[best], ex[best].exercise_name_id, "fuzzy", normalized)
        ELSE
            [category_id |-> 0,
             category_name |-> S_Core,
             display_name |-> None,
             exercise_name_id |-> None,
             match_type |-> "default",
             normalized |-> normalized]

\* find, once the name is normalized (lines 155-228)
FindNormalized(lookup, normalized) ==
    LET bk == lookup.builtin_keywords
        B  == {i \in 1..Len(bk) : Contains(normalized, bk[i].keyword)}
        ex == lookup.exercises
        E  == {i \in 1..Len(ex) : ex[i].key = normalized}
        kw == lookup.keywords
        K  == {i \in 1..Len(kw) : Contains(normalized, kw[i].keyword)}
        best == BestFuzzy(ex, normalized)
    IN  IF B # {} THEN Found(bk[SetMin(B)], None, "builtin_keyword", normalized)
        ELSE IF E # {}
            THEN Found(ex[SetMin(E)], ex[SetMin(E)].exercise_name_id, "exact", normalized)
        ELSE IF K # {} THEN Found(kw[SetMin(K)], None, "keyword", normalized)
        ELSE IF best # 0
            THEN Found(ex[best], ex[best].exercise_name_id, "fuzzy", normalized)
        ELSE
            [category_id |-> 5,
             category_name |-> S_Core,
             display_name |-> None,
             exercise_name_id |-> None,
             match_type |-> "default",
             normalized |-> normalized]

\* GarminExerciseLookup.find
find(lookup, exercise_name) == FindNormalized(lookup, normalize(exercise_name))

---------------------------------------------------------------------------
(* fit_builder.py *)

S_Rest == <<"R", "e", "s", "t">>

S_WarmUp == <<"W", "a", "r", "m", "-", "U", "p">>

S_WarmUpSuffix == <<" ", "(", "W", "a", "r", "m", "-", "U", "p", ")">>

S_Exercise == <<"E", "x", "e", "r", "c", "i", "s", "e">>

WARMUP_ACTIVITY_NAMES ==
    ("stretching" :> <<"S", "t", "r", "e", "t", "c", "h", "i", "n", "g">>) @@
    ("jump_rope" :> <<"J", "u", "m", "p", " ", "R", "o", "p", "e">>) @@
    ("air_bike" :> <<"A", "i", "r", " ", "B", "i", "k", "e">>) @@
    ("treadmill" :> <<"T", "r", "e", "a", "d", "m", "i", "l", "l">>) @@
    ("stairmaster" :> <<"S", "t", "a", "i", "r", "m", "a", "s", "t", "e", "r">>) @@
    ("rowing" :> <<"R", "o", "w", "i", "n", "g">>) @@
    ("custom" :> <<"W", "a", "r", "m", "-", "U", "p">>)
\* _is_user_confirmed_name
_is_user_confirmed_name(name) ==
    LET low == Lower(name)
        words == WordStarts(name)
        capitalized == Cardinality({i \in words : name[i] \in UpperSet})
    IN  IF Len(name) < 2 THEN FALSE
        ELSE IF LeadingDistanceEnd(low, {S_m, S_km, S_mi}) > 0 THEN FALSE
        ELSE IF \E q \in 1..(Len(low) - 1) : low[q] = "x" /\ low[q + 1] \in DigitSet THEN FALSE
        ELSE IF words = {} THEN FALSE
        ELSE 10 * capitalized >= 6 * Cardinality(words)

\* parse_structure: the first run of digits of a label such as "3 rounds"
parse_structure(structure_str) ==
    LET D == {i \in 1..Len(structure_str) : structure_str[i] \in DigitSet}
    IN  IF D = {} THEN 1
        ELSE LET i == SetMin(D)
             IN  DigitsValue(SubSeq(structure_str, i, RunEnd(structure_str, i, DigitSet)))

_create_rest_step(duration_sec, rest_type) ==
    IF rest_type = "button"
    THEN [type |-> "rest", display_name |-> S_Rest, intensity |-> "rest",
          duration_type |-> "lap_button", duration_value |-> 0, rest_seconds |-> 0]
    ELSE [type |-> "rest", display_name |-> S_Rest, intensity |-> "rest",
          duration_type |-> "time", duration_value |-> duration_sec * 1000,
          rest_seconds |-> duration_sec]

\* _create_warmup_step; the FIT codes 0 (TIME) and 5 (OPEN) of duration_type
\* are kept as the strings "0" and "5"
_create_warmup_step(duration_sec, activity) ==
    LET display_name ==
            IF activity # "None" /\ activity \in DOMAIN WARMUP_ACTIVITY_NAMES
            THEN WARMUP_ACTIVITY_NAMES[activity]
            ELSE S_WarmUp
    IN  IF duration_sec # None /\ Val(duration_sec) > 0
        THEN [type |-> "warmup", display_name |-> display_name, intensity |-> "warmup",
              duration_type |-> "0", duration_value |-> Val(duration_sec) * 1000,
              category_id |-> 2, category_name |-> S_Cardio]
        ELSE [type |-> "warmup", display_name |-> display_name, intensity |-> "warmup",
              duration_type |-> "5", duration_value |-> 0,
              category_id |-> 2, category_name |-> S_Cardio]

\* a value of the reps field: absent, an integer or a text
NoReps == [kind |-> "none", int |-> 0, str |-> <<>>]

RepsInt(n) == [kind |-> "int", int |-> n, str |-> <<>>]

RepsStr(s) == [kind |-> "str", int |-> 0, str |-> s]

\* x and x > 0
Positive(x) == x # None /\ Val(x) > 0

\* x or 0
OrZero(x) == IF Truthy(x) THEN Val(x) ELSE 0

\* the distance in centimetres of a textual reps value "<number>km" or
\* "<number>m" (re.match of ^([\d.]+)\s*km$ and ^([\d.]+)\s*m$ on the
\* lower-cased, stripped text), None when neither pattern matches
RepsDistanceCm(reps_raw) ==
    LET reps_str == Strip(Lower(reps_raw))
        d == RunEnd(reps_str, 1, DigitDotSet)
        b == RunEnd(reps_str, d + 1, SpaceSet)
        unit == Drop(reps_str, b)
    IN  IF d >= 1 /\ unit = S_km THEN Some(FloatTimesPow10(Take(reps_str, d), 5))
        ELSE IF d >= 1 /\ unit = S_m THEN Some(FloatTimesPow10(Take(reps_str, d), 2))
        ELSE None

\* int(reps_raw.split('-')[0]), 10 when int() raises
RepsLowerBound(reps_raw) ==
    LET dashes == {i \in 1..Len(reps_raw) : reps_raw[i] = "-"}
        first == IF dashes = {} THEN reps_raw ELSE Take(reps_raw, SetMin(dashes) - 1)
        r == IntParse(first)
    IN  IF r.ok THEN r.value ELSE 10

\* parts = reps_range.replace('-', ' ').split(); int(parts[-1]) if parts else 10
RepsUpperBound(reps_range) ==
    LET t == [i \in 1..Len(reps_range) |-> IF reps_range[i] = "-" THEN " " ELSE reps_range[i]]
        words == WordStarts(t)
        last == CHOOSE i \in words : \A j \in words : j <= i
        r == IntParse(SubSeq(t, last, RunStart(t, Len(t), SpaceSet) - 1))
    IN  IF words = {} THEN 10
        ELSE IF r.ok THEN r.value ELSE 10

\* a faulty Duration: duration_sec is looked at before the distance
DurationTimeFirst(exercise, lap_button) ==
    LET reps_raw == exercise.reps
        distance_cm ==
            IF exercise.distance_m # None /\ Val(exercise.distance_m) > 0
            THEN Some(Val(exercise.distance_m) * 100)
            ELSE IF reps_raw.kind = "str" THEN RepsDistanceCm(reps_raw.str)
            ELSE None
    IN  IF lap_button THEN [type |-> "lap_button", value |-> 0]
        ELSE IF Truthy(exercise.duration_sec)
            THEN [type |-> "time", value |-> Val(exercise.duration_sec) * 1000]
        ELSE IF distance_cm # None THEN [type |-> "distance", value |-> Val(distance_cm)]
        ELSE IF reps_raw.kind = "str"
            THEN [type |-> "reps", value |-> RepsLowerBound(reps_raw.str)]
        ELSE IF reps_raw.kind = "int"
            THEN [type |-> "reps", value |-> IF reps_raw.int # 0 THEN reps_raw.int ELSE 10]
        ELSE IF Len(exercise.reps_range) > 0
            THEN [type |-> "reps", value |-> RepsUpperBound(exercise.reps_range)]
        ELSE [type |-> "lap_button", value |-> 0]

\* the duration type and value of a working-set step (lines 337-391)
Duration(exercise, lap_button) ==
    LET reps_raw == exercise.reps
        distance_cm ==
            IF exercise.distance_m # None /\ Val(exercise.distance_m) > 0
            THEN Some(Val(exercise.distance_m) * 100)
            ELSE IF reps_raw.kind = "str" THEN RepsDistanceCm(reps_raw.str)
            ELSE None
    IN  IF lap_button THEN [type |-> "lap_button", value |-> 0]
        ELSE IF distance_cm # None THEN [type |-> "distance", value |-> Val(distance_cm)]
        ELSE IF Truthy(exercise.duration_sec)
            THEN [type |-> "time", value |-> Val(exercise.duration_sec) * 1000]
        ELSE IF reps_raw.kind = "str"
            THEN [type |-> "reps", value |-> RepsLowerBound(reps_raw.str)]
        ELSE IF reps_raw.kind = "int"
            THEN [type |-> "reps", value |-> IF reps_raw.int # 0 THEN reps_raw.int ELSE 10]
        ELSE IF Len(exercise.reps_range) > 0
            THEN [type |-> "reps", value |-> RepsUpperBound(exercise.reps_range)]
        ELSE [type |-> "lap_button", value |-> 0]

\* a faulty DisplayName: the name heuristic is consulted before the match kind
DisplayNameConfirmedFirst(match, name) ==
    IF _is_user_confirmed_name(name) THEN name
    ELSE IF match.match_type = "exact" \/ match.match_type = "exact_with_category_override"
    THEN IF Len(match.display_name) > 0 THEN match.display_name ELSE name
    ELSE IF Len(match.display_name) > 0 THEN match.display_name
    ELSE match.category_name

\* the display name of an exercise step (lines 324-335)
DisplayName(match, name) ==
    IF match.match_type = "exact" \/ match.match_type = "exact_with_category_override"
    THEN IF Len(match.display_name) > 0 THEN match.display_name ELSE name
    ELSE IF _is_user_confirmed_name(name) THEN name
    ELSE IF Len(match.display_name) > 0 THEN match.display_name
    ELSE match.category_name

\* a faulty Repeat: the count of the additional executions, as the reader of
\* the file counts them
RepeatAdditional(duration_step, repeat_count) ==
    [type |-> "repeat", duration_step |-> duration_step, repeat_count |-> repeat_count - 1]

\* the repeat step (lines 435-443, 500-507, 528-536)
Repeat(duration_step, repeat_count) ==
    [type |-> "repeat", duration_step |-> duration_step, repeat_count |-> repeat_count]

\* the rest between two sets of one exercise (lines 427-433 and 517-526)
SetRest(exercise_rest_type, exercise_rest_sec, rest_between_sets, rest_type_block) ==
    IF exercise_rest_type = "button" THEN <<_create_rest_step(0, "button")>>
    ELSE IF Positive(exercise_rest_sec)
        THEN <<_create_rest_step(Val(exercise_rest_sec), "timed")>>
    ELSE IF rest_between_sets > 0
        THEN <<_create_rest_step(rest_between_sets, rest_type_block)>>
    ELSE <<>>

\* the warm-up sets of an exercise (lines 400-449); start is len(steps)
WarmupSets(exercise, match, display_name, category_id, start, exercise_rest_type, exercise_rest_sec, c) ==
    LET warmup_sets == exercise.warmup_sets
        warmup_reps == exercise.warmup_reps
        warmup_step ==
            [type |-> "exercise",
             display_name |-> display_name \o S_WarmUpSuffix,
             original_name |-> exercise.name,
             category_id |-> category_id,
             category_name |-> match.category_name,
             intensity |-> "warmup",
             duration_type |-> "reps",
             duration_value |-> Val(warmup_reps),
             reps |-> RepsInt(Val(warmup_reps)),
             sets |-> Val(warmup_sets),
             is_warmup_set |-> TRUE,
             exercise_name_id |-> match.exercise_name_id]
    IN  IF Positive(warmup_sets) /\ Positive(warmup_reps)
        THEN <<warmup_step>>
             \o (IF Val(warmup_sets) > 1
                 THEN SetRest(exercise_rest_type, exercise_rest_sec,
                              c.rest_between_sets, c.rest_type_block)
                      \o <<Repeat(start, Val(warmup_sets))>>
                 ELSE <<>>)
             \o (IF Positive(exercise_rest_sec)
                 THEN <<_create_rest_step(Val(exercise_rest_sec), exercise_rest_type)>>
                 ELSE IF c.rest_between_sets > 0
                     THEN <<_create_rest_step(c.rest_between_sets, c.rest_type_block)>>
                 ELSE <<>>)
        ELSE <<>>

\* a faulty IndexOf: the position counted from 1
IndexOfOneBased(all_exercises, exercise) ==
    SetMin({i \in 1..Len(all_exercises) : all_exercises[i] = exercise})

\* all_exercises.index(exercise): the 0-based position of the first equal record
IndexOf(all_exercises, exercise) ==
    SetMin({i \in 1..Len(all_exercises) : all_exercises[i] = exercise}) - 1

\* a faulty Sets: the exercise's sets multiplied by the block's rounds
SetsTimesRounds(exercise, rounds) ==
    (IF Truthy(exercise.sets) THEN Val(exercise.sets) ELSE 1) * rounds

\* sets = exercise.get('sets') or rounds (line 304)
Sets(exercise, rounds) == IF Truthy(exercise.sets) THEN Val(exercise.sets) ELSE rounds

\* a faulty StartIndex: len(steps) taken once the working step and its rest
\* are appended
StartIndexAfter(before, warm) == Len(before) + Len(warm) + 2

\* start_index = len(steps), taken after the warm-up sets and before the
\* working step is appended (line 451)
StartIndex(before, warm) == Len(before) + Len(warm)

\* the steps one exercise adds (lines 300-544), given its resolver match and
\* its duration; st holds steps, category_ids_used and superset_start_index,
\* c the block's values computed before the loop
EmitExercise(exercise, st, c, match, duration) ==
    LET name == exercise.name
        sets == Sets(exercise, c.rounds)
        a == Val(exercise.stash)
        in_superset == a._in_superset
        superset_start_index ==
            IF in_superset /\ a._is_first_in_superset
            THEN Some(Len(st.steps))
            ELSE st.superset_start_index
        category_id == validate_category_id(match.category_id)
        display_name == DisplayName(match, name)
        exercise_rest_type ==
            IF exercise.rest_type # "None" THEN exercise.rest_type ELSE c.block_rest_type
        exercise_rest_sec ==
            IF exercise.rest_sec = None /\ c.block_rest_sec # None
            THEN c.block_rest_sec
            ELSE exercise.rest_sec
        warm == WarmupSets(exercise, match, display_name, category_id, Len(st.steps),
                           exercise_rest_type, exercise_rest_sec, c)
        start_index == StartIndex(st.steps, warm)
        step ==
            [type |-> "exercise",
             display_name |-> display_name,
             original_name |-> name,
             category_id |-> category_id,
             category_name |-> match.category_name,
             intensity |-> "active",
             duration_type |-> duration.type,
             duration_value |-> duration.value,
             reps |-> exercise.reps,
             sets |-> sets,
             exercise_name_id |-> match.exercise_name_id]
        is_last_exercise == IndexOf(c.all_exercises, exercise) = Len(c.all_exercises) - 1
        superset_rest == a._superset_rest
        superset_rest_type == a._superset_rest_type
        superset_rounds == Val(a._superset_rounds)
        has_superset_rest == Truthy(superset_rest) \/ superset_rest_type = "button"
        is_last_superset_in_workout == c.is_last_block /\ a._is_last_superset
        has_exercise_rest == Positive(exercise_rest_sec) \/ exercise_rest_type = "button"
        after ==
            IF in_superset THEN
                IF a._is_last_in_superset THEN
                    (IF has_superset_rest /\ (superset_rounds > 1 \/ ~is_last_superset_in_workout)
                     THEN <<_create_rest_step(OrZero(superset_rest), superset_rest_type)>>
                     ELSE <<>>)
                    \o (IF superset_rounds > 1 /\ superset_start_index # None
                        THEN <<Repeat(Val(superset_start_index), superset_rounds)>>
                        ELSE <<>>)
                ELSE <<>>
            ELSE
                (IF sets > 1
                 THEN SetRest(exercise_rest_type, exercise_rest_sec,
                              c.rest_between_sets, c.rest_type_block)
                      \o <<Repeat(start_index, sets)>>
                 ELSE <<>>)
                \o (IF sets <= 1 /\ has_exercise_rest /\ ~(c.is_last_block /\ is_last_exercise)
                    THEN <<_create_rest_step(OrZero(exercise_rest_sec), exercise_rest_type)>>
                    ELSE <<>>)
    IN  [steps |-> st.steps \o warm \o <<step>> \o after,
         category_ids_used |-> st.category_ids_used \cup {category_id},
         superset_start_index |->
            IF in_superset /\ a._is_last_in_superset THEN None ELSE superset_start_index]

\* one iteration of "for exercise in all_exercises" (lines 300-544)
ProcessExercise(exercise, st, c) ==
    EmitExercise(exercise, st, c, find(c.lookup, exercise.name),
                 Duration(exercise, c.use_lap_button))

RECURSIVE ExerciseLoop(_, _, _)
ExerciseLoop(k, st, c) ==
    IF k > Len(c.all_exercises) THEN st
    ELSE ExerciseLoop(k + 1, ProcessExercise(c.all_exercises[k], st, c), c)

\* a faulty SupersetRest: the superset's own rest is ignored
SupersetRestOfBlock(superset, block_rest_sec) == block_rest_sec

\* the rest of a superset: its own, else the block's (lines 258-265)
SupersetRest(superset, block_rest_sec) ==
    IF superset.rest_between_sec = None THEN block_rest_sec ELSE superset.rest_between_sec

SupersetRestType(superset, block_rest_type) ==
    IF superset.rest_type = "None" THEN block_rest_type ELSE superset.rest_type

\* a faulty SupersetStash: the last superset counts as the end of the block
\* although standalone exercises follow it
SupersetStashLastOfSupersets(block, rounds, block_rest_type, block_rest_sec, superset_idx, ex_idx) ==
    LET supersets == block.supersets
        superset == supersets[superset_idx + 1]
        superset_rest == SupersetRest(superset, block_rest_sec)
        superset_rest_type == SupersetRestType(superset, block_rest_type)
    IN  [_superset_idx |-> Some(superset_idx),
         _is_first_in_superset |-> (ex_idx = 0),
         _is_last_in_superset |-> (ex_idx = Len(superset.exercises) - 1),
         _superset_rest |-> superset_rest,
         _superset_rest_type |-> superset_rest_type,
         _superset_rounds |-> Some(rounds),
         _is_last_superset |-> (superset_idx = Len(supersets) - 1),
         _in_superset |-> TRUE]

\* the bookkeeping fields written into a superset's exercise (lines 273-282)
SupersetStash(block, rounds, block_rest_type, block_rest_sec, superset_idx, ex_idx) ==
    LET supersets == block.supersets
        superset == supersets[superset_idx + 1]
        superset_rest == SupersetRest(superset, block_rest_sec)
        superset_rest_type == SupersetRestType(superset, block_rest_type)
    IN  [_superset_idx |-> Some(superset_idx),
         _is_first_in_superset |-> (ex_idx = 0),
         _is_last_in_superset |-> (ex_idx = Len(superset.exercises) - 1),
         _superset_rest |-> superset_rest,
         _superset_rest_type |-> superset_rest_type,
         _superset_rounds |-> Some(rounds),
         _is_last_superset |->
            ((superset_idx = Len(supersets) - 1) /\ Len(block.exercises) = 0),
         _in_superset |-> TRUE]

\* the bookkeeping fields written into a standalone exercise (lines 286-294)
StandaloneStash(block, ex_idx) ==
    [_superset_idx |-> None,
     _is_first_in_superset |-> FALSE,
     _is_last_in_superset |-> FALSE,
     _superset_rest |-> None,
     _superset_rest_type |-> "timed",
     _superset_rounds |-> None,
     _is_last_superset |-> (ex_idx = Len(block.exercises) - 1),
     _in_superset |-> FALSE]

\* the block as the two annotation loops leave it (lines 255-295)
AnnotateBlock(block, rounds, block_rest_type, block_rest_sec) ==
    [block EXCEPT
        !.supersets =
            [si \in 1..Len(block.supersets) |->
                [block.supersets[si] EXCEPT
                    !.exercises =
                        [ei \in 1..Len(block.supersets[si].exercises) |->
                            [block.supersets[si].exercises[ei] EXCEPT
                                !.stash = Some(SupersetStash(block, rounds, block_rest_type,
                                                             block_rest_sec, si - 1, ei - 1))]]]],
        !.exercises =
            [ei \in 1..Len(block.exercises) |->
                [block.exercises[ei] EXCEPT !.stash = Some(StandaloneStash(block, ei - 1))]]]

RECURSIVE SupersetExercises(_, _)
SupersetExercises(supersets, k) ==
    IF k > Len(supersets) THEN <<>>
    ELSE supersets[k].exercises \o SupersetExercises(supersets, k + 1)

\* the state after a block: done is the state after its exercise loop, rest
\* the rest after the block (lines 546-548)
BlockDone(done, annotated, blocks, rest) ==
    [steps |-> done.steps \o rest,
     category_ids_used |-> done.category_ids_used,
     blocks |-> blocks \o <<annotated>>]

\* the exercise loop of a block whose exercises carry their bookkeeping
\* fields (lines 297-548)
RunBlock(annotated, st, c, rest_after_block) ==
    BlockDone(ExerciseLoop(1, [steps |-> st.steps,
                               category_ids_used |-> st.category_ids_used,
                               superset_start_index |-> None],
                           [c EXCEPT !.all_exercises =
                                SupersetExercises(annotated.supersets, 1)
                                \o annotated.exercises]),
              annotated, st.blocks,
              IF Positive(rest_after_block) /\ ~c.is_last_block
              THEN <<_create_rest_step(Val(rest_after_block), c.rest_type_block)>>
              ELSE <<>>)

\* the rest type of a block: the override's when enabled, else the legacy
\* rest_type field, else the workout default (lines 225-233)
BlockRestType(block, default_rest_type) ==
    IF block.restOverride.enabled
    THEN (IF block.restOverride.restType = "None" THEN default_rest_type
          ELSE block.restOverride.restType)
    ELSE (IF block.rest_type # "None" THEN block.rest_type ELSE default_rest_type)

\* a faulty BlockRestSec: the override is consulted whether enabled or not
BlockRestSecOfOverride(block, default_rest_sec) ==
    IF block.restOverride.restSec = None THEN default_rest_sec
    ELSE block.restOverride.restSec

\* the rest seconds of a block: the override's when enabled, else the
\* workout default (lines 225-233)
BlockRestSec(block, default_rest_sec) ==
    IF block.restOverride.enabled
    THEN (IF block.restOverride.restSec = None THEN default_rest_sec
          ELSE block.restOverride.restSec)
    ELSE default_rest_sec

\* one iteration of "for block_idx, block in enumerate(blocks)" (lines 213-548);
\* st holds steps, category_ids_used and the blocks already annotated
ProcessBlock(block, block_idx, num_blocks, st, default_rest_type, default_rest_sec, lap_button, lookup) ==
    LET warmup ==
            IF block.warmup_enabled
            THEN <<_create_warmup_step(block.warmup_duration_sec, block.warmup_activity)>>
            ELSE <<>>
        rounds == parse_structure(block.structure)
        block_rest_type == BlockRestType(block, default_rest_type)
        block_rest_sec == BlockRestSec(block, default_rest_sec)
        rest_between_sets ==
            IF Truthy(block.rest_between_sets_sec) THEN Val(block.rest_between_sets_sec)
            ELSE IF block.rest_between_sec = None THEN 30
            ELSE IF Truthy(block.rest_between_sec) THEN Val(block.rest_between_sec)
            ELSE 30
        rest_after_block == block.rest_between_rounds_sec
        rest_type_block == block_rest_type
        is_last_block == (block_idx = num_blocks - 1)
    IN  RunBlock(AnnotateBlock(block, rounds, block_rest_type, block_rest_sec),
                 [st EXCEPT !.steps = st.steps \o warmup],
                 [rounds |-> rounds,
                  block_rest_type |-> block_rest_type,
                  block_rest_sec |-> block_rest_sec,
                  rest_between_sets |-> rest_between_sets,
                  rest_type_block |-> rest_type_block,
                  is_last_block |-> is_last_block,
                  all_exercises |-> <<>>,
                  use_lap_button |-> lap_button,
                  lookup |-> lookup],
                 rest_after_block)

RECURSIVE BlockLoop(_, _, _, _, _, _, _)
BlockLoop(blocks, k, st, default_rest_type, default_rest_sec, lap_button, lookup) ==
    IF k > Len(blocks) THEN st
    ELSE BlockLoop(blocks, k + 1,
                   ProcessBlock(blocks[k], k - 1, Len(blocks), st, default_rest_type,
                                default_rest_sec, lap_button, lookup),
                   default_rest_type, default_rest_sec, lap_button, lookup)

\* what a call hands back: the steps, the category set, and the caller's
\* blocks_json with the bookkeeping fields the call wrote (lines 273-295, 550)
Returned(workout, r) ==
    [steps |-> r.steps,
     category_ids_used |-> r.category_ids_used,
     blocks_json |-> [workout EXCEPT !.blocks = r.blocks]]

\* a faulty blocks_to_steps: the default warm-up step is emitted whether or
\* not the first block declares its own
blocks_to_steps_default_always(workout, lap_button, lookup) ==
    LET blocks == workout.blocks
        settings == workout.settings
        default_rest_type ==
            IF settings.defaultRestType = "None" THEN "button" ELSE settings.defaultRestType
        default_rest_sec == settings.defaultRestSec
        workout_warmup == settings.workoutWarmup
        first ==
            IF workout_warmup.enabled
            THEN <<_create_warmup_step(workout_warmup.durationSec, workout_warmup.activity)>>
            ELSE <<_create_warmup_step(None, "None")>>
    IN  Returned(workout,
                 BlockLoop(blocks, 1,
                           [steps |-> first, category_ids_used |-> {}, blocks |-> <<>>],
                           default_rest_type, default_rest_sec, lap_button, lookup))

\* blocks_to_steps (lines 159-550)
blocks_to_steps(workout, lap_button, lookup) ==
    LET blocks == workout.blocks
        settings == workout.settings
        default_rest_type ==
            IF settings.defaultRestType = "None" THEN "button" ELSE settings.defaultRestType
        default_rest_sec == settings.defaultRestSec
        workout_warmup == settings.workoutWarmup
        first ==
            IF workout_warmup.enabled
            THEN <<_create_warmup_step(workout_warmup.durationSec, workout_warmup.activity)>>
            ELSE IF Len(blocks) = 0 \/ ~blocks[1].warmup_enabled
                THEN <<_create_warmup_step(None, "None")>>
            ELSE <<>>
    IN  Returned(workout,
                 BlockLoop(blocks, 1,
                           [steps |-> first, category_ids_used |-> {}, blocks |-> <<>>],
                           default_rest_type, default_rest_sec, lap_button, lookup))

\* a faulty detect_sport_type: strength takes precedence in a mixed workout
detect_sport_type_strength_first(category_ids) ==
    IF category_ids = {32}
    THEN [sport_id |-> 1, sub_sport_id |-> 0, sport_name |-> "running"]
    ELSE IF category_ids # {} /\ category_ids \subseteq {2, 23, 32}
        THEN [sport_id |-> 10, sub_sport_id |-> 26, sport_name |-> "cardio"]
    ELSE [sport_id |-> 10, sub_sport_id |-> 20, sport_name |-> "strength"]

\* detect_sport_type: (sport_id, sub_sport_id, sport_name)
detect_sport_type(category_ids) ==
    LET RUNNING_CATEGORIES == {32}
        CARDIO_MACHINE_CATEGORIES == {2, 23}
        has_running == category_ids \cap RUNNING_CATEGORIES # {}
        has_cardio_machines == category_ids \cap CARDIO_MACHINE_CATEGORIES # {}
        strength_categories ==
            (category_ids \ RUNNING_CATEGORIES) \ CARDIO_MACHINE_CATEGORIES
        has_strength == strength_categories # {}
    IN  IF has_running /\ ~has_strength /\ ~has_cardio_machines
        THEN [sport_id |-> 1, sub_sport_id |-> 0, sport_name |-> "running"]
        ELSE IF has_running \/ has_cardio_machines
            THEN [sport_id |-> 10, sub_sport_id |-> 26, sport_name |-> "cardio"]
        ELSE IF has_strength
            THEN [sport_id |-> 10, sub_sport_id |-> 20, sport_name |-> "strength"]
        ELSE [sport_id |-> 10, sub_sport_id |-> 20, sport_name |-> "strength"]

\* _duration_type_to_fit
_duration_type_to_fit(duration_type) ==
    IF duration_type = "time" THEN "TIME"
    ELSE IF duration_type = "distance" THEN "DISTANCE"
    ELSE IF duration_type = "reps" THEN "REPS"
    ELSE IF duration_type = "lap_button" THEN "OPEN"
    ELSE IF duration_type = "repeat" THEN "REPEAT_UNTIL_STEPS_CMPLT"
    ELSE "REPS"

\* a faulty get_exercise_id: the id of a pair already met is not looked up
get_exercise_id_unmemoized(step, st) ==
    LET category_id == step.category_id
        display_name == step.display_name
        ids == st.category_exercise_ids
        counter == st.exercise_name_counter
        next == IF category_id \in DOMAIN counter THEN counter[category_id] ELSE 0
        Entry(id) == [category_id |-> category_id, display_name |-> display_name, id |-> id]
    IN  IF step.exercise_name_id # None
        THEN [id |-> Val(step.exercise_name_id),
              category_exercise_ids |-> Append(ids, Entry(Val(step.exercise_name_id))),
              exercise_name_counter |-> counter]
        ELSE [id |-> next,
              category_exercise_ids |-> Append(ids, Entry(next)),
              exercise_name_counter |->
                  [k \in DOMAIN counter \cup {category_id} |->
                      IF k = category_id THEN next + 1 ELSE counter[k]]]

\* build_fit_workout.get_exercise_id: the id returned for a step, and the two
\* dictionaries after the call.  category_exercise_ids keeps its entries in
\* insertion order; exercise_name_counter maps a category to its next id.
get_exercise_id(step, st) ==
    LET category_id == step.category_id
        display_name == step.display_name
        ids == st.category_exercise_ids
        known == {i \in 1..Len(ids) :
                    ids[i].category_id = category_id /\ ids[i].display_name = display_name}
        counter == st.exercise_name_counter
        next == IF category_id \in DOMAIN counter THEN counter[category_id] ELSE 0
        Entry(id) == [category_id |-> category_id, display_name |-> display_name, id |-> id]
    IN  IF known # {}
        THEN [id |-> ids[CHOOSE i \in known : TRUE].id,
              category_exercise_ids |-> ids,
              exercise_name_counter |-> counter]
        ELSE IF step.exercise_name_id # None
            THEN [id |-> Val(step.exercise_name_id),
                  category_exercise_ids |-> Append(ids, Entry(Val(step.exercise_name_id))),
                  exercise_name_counter |-> counter]
        ELSE [id |-> next,
              category_exercise_ids |-> Append(ids, Entry(next)),
              exercise_name_counter |->
                  [k \in DOMAIN counter \cup {category_id} |->
                      IF k = category_id THEN next + 1 ELSE counter[k]]]

\* the two dictionaries a get_exercise_id call leaves
Dictionaries(r) ==
    [category_exercise_ids |-> r.category_exercise_ids,
     exercise_name_counter |-> r.exercise_name_counter]

\* first pass (lines 716-718): the dictionaries after every exercise step
RECURSIVE CollectExerciseIds(_, _, _)
CollectExerciseIds(compiled, k, st) ==
    IF k > Len(compiled) THEN st
    ELSE IF compiled[k].type = "exercise"
        THEN CollectExerciseIds(compiled, k + 1, Dictionaries(get_exercise_id(compiled[k], st)))
        ELSE CollectExerciseIds(compiled, k + 1, st)

\* the ExerciseTitleMessage of one entry of category_exercise_ids (lines 722-727)
ExerciseTitle(entry) ==
    [exercise_category |-> entry.category_id,
     exercise_name |-> entry.id,
     workout_step_name |-> Take(entry.display_name, 50)]

\* the WorkoutStepMessage of one step (lines 731-788); durations keep the
\* step's units (milliseconds, centimetres), of which the message carries
\* the quotient by 1000.0 and 100.0
WorkoutStep(step, step_index, st) ==
    IF step.type = "exercise" THEN
        [message_index |-> step_index,
         workout_step_name |-> Take(step.display_name, 50),
         intensity |-> "ACTIVE",
         duration_type |-> _duration_type_to_fit(step.duration_type),
         duration_value |-> step.duration_value,
         target_type |-> "OPEN",
         exercise_category |-> step.category_id,
         exercise_name |-> get_exercise_id(step, st).id]
    ELSE IF step.type = "rest" THEN
        [message_index |-> step_index,
         workout_step_name |-> S_Rest,
         intensity |-> "REST",
         duration_type |->
            IF step.duration_type = "lap_button" \/ step.duration_value <= 0
            THEN "OPEN" ELSE "TIME",
         duration_value |->
            IF step.duration_type = "lap_button" \/ step.duration_value <= 0
            THEN 0 ELSE step.duration_value,
         target_type |-> "OPEN"]
    ELSE IF step.type = "warmup" THEN
        [message_index |-> step_index,
         workout_step_name |-> Take(step.display_name, 50),
         intensity |-> "WARMUP",
         duration_type |->
            IF step.duration_type = "5" \/ step.duration_value <= 0
            THEN "OPEN" ELSE "TIME",
         duration_value |->
            IF step.duration_type = "5" \/ step.duration_value <= 0
            THEN 0 ELSE step.duration_value,
         target_type |-> "OPEN"]
    ELSE
        [message_index |-> step_index,
         duration_type |-> "REPEAT_UNTIL_STEPS_CMPLT",
         duration_step |-> step.duration_step,
         target_value |-> step.repeat_count]

NotBuilt == [status |-> "none"]

\* a faulty Messages: step_index is not advanced by a repeat step
MessagesRepeatsUncounted(compiled, sport, st) ==
    [status |-> "ok",
     sport_id |-> sport.sport_id,
     sub_sport_id |-> sport.sub_sport_id,
     num_valid_steps |-> Cardinality({i \in 1..Len(compiled) : compiled[i].type # "repeat"}),
     exercise_titles |->
        [i \in 1..Len(st.category_exercise_ids) |-> ExerciseTitle(st.category_exercise_ids[i])],
     workout_steps |->
        [i \in 1..Len(compiled) |->
            WorkoutStep(compiled[i],
                        Cardinality({m \in 1..(i - 1) : compiled[m].type # "repeat"}), st)]]

\* the messages of a workout (lines 651-788), st the dictionaries after the
\* first pass
Messages(compiled, sport, st) ==
    [status |-> "ok",
     sport_id |-> sport.sport_id,
     sub_sport_id |-> sport.sub_sport_id,
     num_valid_steps |-> Cardinality({i \in 1..Len(compiled) : compiled[i].type # "repeat"}),
     exercise_titles |->
        [i \in 1..Len(st.category_exercise_ids) |-> ExerciseTitle(st.category_exercise_ids[i])],
     workout_steps |-> [i \in 1..Len(compiled) |-> WorkoutStep(compiled[i], i - 1, st)]]

\* build_fit_workout, from the step list and category set blocks_to_steps
\* returned (lines 645-646): the messages handed to the FIT builder, or the
\* ValueError raised for an empty step list
build_fit_workout(compiled, category_ids, force_sport_type) ==
    IF Len(compiled) = 0
    THEN [status |-> "ValueError", message |-> "No exercises found"]
    ELSE Messages(compiled,
                  IF force_sport_type = "strength" THEN [sport_id |-> 10, sub_sport_id |-> 20]
                  ELSE IF force_sport_type = "cardio" THEN [sport_id |-> 10, sub_sport_id |-> 26]
                  ELSE IF force_sport_type = "running" THEN [sport_id |-> 1, sub_sport_id |-> 0]
                  ELSE [sport_id |-> detect_sport_type(category_ids).sport_id,
                        sub_sport_id |-> detect_sport_type(category_ids).sub_sport_id],
                  CollectExerciseIds(compiled, 1,
                        [category_exercise_ids |-> <<>>, exercise_name_counter |-> <<>>]))

---------------------------------------------------------------------------
(* preview.py *)

\* a formatted text, kept as its format and the numbers put into it
Text(format, values) == [format |-> format, values |-> values]

\* duration_display of an exercise step (lines 65-88); dvalue is in
\* milliseconds for "time" and in centimetres for "distance"
ExerciseDurationDisplay(step) ==
    LET dtype == step.duration_type
        dvalue == step.duration_value
    IN  IF dtype = "lap_button" THEN Text("Lap Button", <<>>)
        ELSE IF dtype = "reps" THEN Text("{dvalue} reps", <<dvalue>>)
        ELSE IF dtype = "time"
            THEN (IF dvalue >= 60000
                  THEN Text("{mins}:{secs:02d}", <<dvalue \div 60000, (dvalue \div 1000) % 60>>)
                  ELSE Text("{int(seconds)}s", <<dvalue \div 1000>>))
        ELSE IF dtype = "distance"
            THEN (IF dvalue >= 100000
                  THEN Text("{meters/1000:.1f}km", <<dvalue>>)
                  ELSE Text("{int(meters)}m", <<dvalue \div 100>>))
        ELSE Text("{reps}", <<step.reps>>)

\* duration_type and duration_display of a warm-up step (lines 113-134)
WarmupDurationDisplay(step) ==
    LET dtype == step.duration_type
        total_sec == step.duration_value \div 1000
    IN  IF dtype = "5"
        THEN [duration_type |-> "open", duration_display |-> Text("Press Lap", <<>>)]
        ELSE IF dtype = "0" /\ step.duration_value > 0
            THEN [duration_type |-> "time",
                  duration_display |->
                    IF total_sec >= 60
                    THEN (IF total_sec % 60 > 0
                          THEN Text("{minutes}m {secs}s", <<total_sec \div 60, total_sec % 60>>)
                          ELSE Text("{minutes}m", <<total_sec \div 60>>))
                    ELSE Text("{total_sec}s", <<total_sec>>)]
        ELSE [duration_type |-> "open", duration_display |-> Text("Press Lap", <<>>)]

\* the preview of one compiled step (lines 46-134)
PreviewStep(step) ==
    IF step.type = "exercise" THEN
        [type |-> step.type,
         display_name |-> step.display_name,
         original_name |-> step.original_name,
         category_id |-> step.category_id,
         category_name |-> step.category_name,
         duration_type |-> step.duration_type,
         reps |-> step.reps,
         sets |-> step.sets,
         intensity |-> step.intensity,
         is_warmup_set |-> ("is_warmup_set" \in DOMAIN step),
         is_rest |-> FALSE,
         step_type |-> "active",
         duration_display |-> ExerciseDurationDisplay(step)]
    ELSE IF step.type = "rest" THEN
        [type |-> step.type,
         display_name |-> step.display_name,
         rest_seconds |-> step.rest_seconds,
         is_rest |-> TRUE,
         step_type |-> "rest",
         duration_type |-> step.duration_type,
         duration_display |->
            IF step.duration_type \in {"lap_button", "open"} \/ step.rest_seconds <= 0
            THEN Text("Press Lap", <<>>)
            ELSE Text("{int(rest_sec)}s", <<step.rest_seconds>>)]
    ELSE IF step.type = "repeat" THEN
        [type |-> step.type,
         display_name |-> <<>>,
         repeat_count |-> step.repeat_count,
         duration_step |-> step.duration_step]
    ELSE
        [type |-> step.type,
         display_name |-> step.display_name,
         category_id |-> step.category_id,
         category_name |-> step.category_name,
         is_rest |-> FALSE,
         step_type |-> "warmup",
         duration_type |-> WarmupDurationDisplay(step).duration_type,
         duration_display |-> WarmupDurationDisplay(step).duration_display]

\* a faulty get_preview_steps: the repeat steps are left out of the preview
get_preview_steps_without_repeats(compiled) ==
    LET shown == SelectSeq(compiled, LAMBDA step : step.type # "repeat")
    IN  [i \in 1..Len(shown) |-> PreviewStep(shown[i])]

\* get_preview_steps, from the step list blocks_to_steps returned (line 42)
get_preview_steps(compiled) == [i \in 1..Len(compiled) |-> PreviewStep(compiled[i])]

---------------------------------------------------------------------------
(* fit_parser.py *)

\* EXERCISE_CATEGORY_NAMES: the name of category cat_id is entry cat_id + 1
EXERCISE_CATEGORY_NAMES ==
    <<<<"B", "e", "n", "c", "h", " ", "P", "r", "e", "s", "s">>,
      <<"C", "a", "l", "f", " ", "R", "a", "i", "s", "e">>,
      <<"C", "a", "r", "d", "i", "o">>,
      <<"C", "a", "r", "r", "y">>,
      <<"C", "h", "o", "p">>,
      <<"C", "o", "r", "e">>,
      <<"C", "r", "u", "n", "c", "h">>,
      <<"C", "u", "r", "l">>,
      <<"D", "e", "a", "d", "l", "i", "f", "t">>,
      <<"F", "l", "y", "e">>,
      <<"H", "i", "p", " ", "R", "a", "i", "s", "e">>,
      <<"H", "i", "p", " ", "S", "t", "a", "b", "i", "l", "i", "t", "y">>,
      <<"H", "i", "p", " ", "S", "w", "i", "n", "g">>,
      <<"H", "y", "p", "e", "r", "e", "x", "t", "e", "n", "s", "i", "o", "n">>,
      <<"L", "a", "t", "e", "r", "a", "l", " ", "R", "a", "i", "s", "e">>,
      <<"L", "e", "g", " ", "C", "u", "r", "l">>,
      <<"L", "e", "g", " ", "R", "a", "i", "s", "e">>,
      <<"L", "u", "n", "g", "e">>,
      <<"O", "l", "y", "m", "p", "i", "c", " ", "L", "i", "f", "t">>,
      <<"P", "l", "a", "n", "k">>,
      <<"P", "l", "y", "o">>,
      <<"P", "u", "l", "l", " ", "U", "p">>,
      <<"P", "u", "s", "h", " ", "U", "p">>,
      <<"R", "o", "w">>,
      <<"S", "h", "o", "u", "l", "d", "e", "r", " ", "P", "r", "e", "s", "s">>,
      <<"S", "h", "o", "u", "l", "d", "e", "r", " ", "S", "t", "a", "b", "i", "l", "i", "t", "y">>,
      <<"S", "h", "r", "u", "g">>,
      <<"S", "i", "t", " ", "U", "p">>,
      <<"S", "q", "u", "a", "t">>,
      <<"T", "o", "t", "a", "l", " ", "B", "o", "d", "y">>,
      <<"T", "r", "i", "c", "e", "p", "s", " ", "E", "x", "t", "e", "n", "s", "i", "o", "n">>,
      <<"W", "a", "r", "m", " ", "U", "p">>,
      <<"R", "u", "n">>>>

S_ExercisePrefix == <<"E", "x", "e", "r", "c", "i", "s", "e", " ">>

S_kg == <<"k", "g">>

\* str(n) of a natural number
RECURSIVE IntToStr(_)
IntToStr(n) ==
    IF n < 10 THEN <<DIGITS[n + 1]>>
    ELSE IntToStr(n \div 10) \o <<DIGITS[(n % 10) + 1]>>

UpperChar(c) == IF c \in LowerSet THEN UPPER[CHOOSE i \in 1..Len(LOWER) : LOWER[i] = c] ELSE c

\* str.replace('_', ' ').title(): a letter that follows no letter is put in
\* upper case, every other letter in lower case
Title(s) ==
    LET t == [i \in 1..Len(s) |-> IF s[i] = "_" THEN " " ELSE s[i]]
        Letter(c) == c \in LowerSet \cup UpperSet
    IN  [i \in 1..Len(t) |->
            IF ~Letter(t[i]) THEN t[i]
            ELSE IF i = 1 \/ ~Letter(t[i - 1]) THEN UpperChar(t[i])
            ELSE LowerChar(t[i])]

\* a dictionary with no key
NoKeys == [k \in {} |-> 0]

\* one key of a dictionary, set when the condition holds
Key(cond, k, v) == IF cond THEN k :> v ELSE NoKeys

\* a field of a message that is present with a true value ("and field.value"):
\* a non-empty text, a non-zero number
GivenText(record, name) == name \in DOMAIN record /\ Len(record[name]) > 0

GivenNumber(record, name) == name \in DOMAIN record /\ Truthy(record[name])

\* first pass (lines 248-262): the exercise_title messages that have a
\* category and a name, in file order; a later entry replaces an earlier one
\* of the same key
ReadExerciseTitles(messages) ==
    SelectSeq([i \in 1..Len(messages) |->
                  [name |-> IF "wkt_step_name" \in DOMAIN messages[i]
                            THEN messages[i].wkt_step_name ELSE <<>>,
                   category |-> IF GivenText(messages[i], "exercise_category")
                                THEN messages[i].exercise_category ELSE <<>>,
                   exercise_id |-> IF "exercise_name" \in DOMAIN messages[i]
                                   THEN messages[i].exercise_name ELSE None]],
              LAMBDA t : Len(t.category) > 0 /\ Len(t.name) > 0)

\* second pass (lines 279-316): the step read from one workout_step message.
\* Numbers are None or Some(n), texts are sequences of characters, <<>> for
\* None; duration_type, intensity and target_type are the names fitparse
\* gives, "None" for None.
ReadWorkoutStep(record) ==
    Key(GivenText(record, "wkt_step_name"), "name", record.wkt_step_name)
    @@ Key(GivenText(record, "exercise_category"), "category", record.exercise_category)
    @@ Key("exercise_name" \in DOMAIN record, "exercise_id", record.exercise_name)
    @@ Key("duration_type" \in DOMAIN record, "duration_type", record.duration_type)
    @@ Key(GivenNumber(record, "duration_reps"), "reps", Val(record.duration_reps))
    @@ Key(GivenNumber(record, "duration_time"), "duration", Val(record.duration_time))
    @@ Key(GivenNumber(record, "duration_distance"), "distance", Val(record.duration_distance))
    @@ Key("intensity" \in DOMAIN record, "intensity", record.intensity)
    @@ Key(GivenNumber(record, "repeat_steps"), "repeat_count", Val(record.repeat_steps))
    @@ Key(GivenNumber(record, "exercise_weight"), "weight", Val(record.exercise_weight))
    @@ Key("weight_display_unit" \in DOMAIN record, "weight_unit",
           IF GivenText(record, "weight_display_unit") THEN record.weight_display_unit ELSE S_kg)
    @@ Key(GivenText(record, "notes"), "notes", record.notes)
    @@ Key("target_type" \in DOMAIN record /\ record.target_type # "None", "target_type", record.target_type)
    @@ Key(GivenNumber(record, "target_value"), "target_value", Val(record.target_value))
    @@ [is_rest |-> "intensity" \in DOMAIN record /\ record.intensity = "rest",
        is_repeat |-> GivenNumber(record, "repeat_steps")]

\* step.get(key) is true
Has(step, key) == key \in DOMAIN step /\ Len(step[key]) > 0

\* the name looked up for a step without one (lines 342-361): the title of
\* its (category, exercise id) pair, else the title of its category, else
\* the category's name
LookupName(step, exercise_titles) ==
    LET category == step.category
        exercise_id == IF "exercise_id" \in DOMAIN step THEN step.exercise_id ELSE None
        keyed == {k \in 1..Len(exercise_titles) :
                    /\ exercise_titles[k].category = category
                    /\ exercise_titles[k].exercise_id = exercise_id}
        named == {k \in 1..Len(exercise_titles) : exercise_titles[k].category = category}
        Last(S) == CHOOSE k \in S : \A j \in S : j <= k
        cat_id == IntParse(category)
    IN  IF keyed # {} THEN exercise_titles[Last(keyed)].name
        ELSE IF named # {} THEN exercise_titles[Last(named)].name
        ELSE IF cat_id.ok
            THEN (IF cat_id.value + 1 \in DOMAIN EXERCISE_CATEGORY_NAMES
                  THEN EXERCISE_CATEGORY_NAMES[cat_id.value + 1]
                  ELSE S_ExercisePrefix \o IntToStr(cat_id.value))
        ELSE Title(category)

\* the step with its name (lines 342-361)
Named(step, exercise_titles) ==
    IF ~Has(step, "name") /\ Has(step, "category")
    THEN ("name" :> LookupName(step, exercise_titles)) @@ step
    ELSE step

\* step_type (lines 363-372)
StepType(step) ==
    LET intensity == IF "intensity" \in DOMAIN step THEN step.intensity ELSE "active"
    IN  IF intensity \in {"rest", "warmup", "cooldown"} THEN intensity ELSE "active"

\* a faulty CollapsedSets: the count read as the number of sets
CollapsedSetsOfCount(potential_repeat) ==
    IF "repeat_count" \in DOMAIN potential_repeat THEN potential_repeat.repeat_count ELSE 0

\* sets = potential_repeat.get('repeat_count', 0) + 1 (line 380)
CollapsedSets(potential_repeat) ==
    (IF "repeat_count" \in DOMAIN potential_repeat THEN potential_repeat.repeat_count ELSE 0) + 1

\* the two messages after step i are a rest and a repeat (lines 376-379);
\* i is 0-based
Collapses(steps_raw, i) ==
    /\ i + 2 < Len(steps_raw)
    /\ steps_raw[i + 2].is_rest
    /\ steps_raw[i + 3].is_repeat

\* the display step of message i (lines 335-385)
DisplayStep(steps_raw, exercise_titles, i) ==
    ("step_type" :> StepType(steps_raw[i + 1]))
    @@ ("sets" :> IF Collapses(steps_raw, i) THEN CollapsedSets(steps_raw[i + 3]) ELSE 1)
    @@ Named(steps_raw[i + 1], exercise_titles)

\* the loop "while i < len(steps_raw)" (lines 332-388)
RECURSIVE ProcessSteps(_, _, _, _)
ProcessSteps(steps_raw, exercise_titles, i, processed_steps) ==
    IF i >= Len(steps_raw) THEN processed_steps
    ELSE IF steps_raw[i + 1].is_repeat
        THEN ProcessSteps(steps_raw, exercise_titles, i + 1, processed_steps)
    ELSE ProcessSteps(steps_raw, exercise_titles,
                      IF Collapses(steps_raw, i) THEN i + 3 ELSE i + 1,
                      Append(processed_steps, DisplayStep(steps_raw, exercise_titles, i)))

NotParsed == [status |-> "none"]

\* parse_fit_file: the steps of the workout data it returns.  The file_id
\* and workout messages set the other keys (name, sport, colours), which the
\* steps do not depend on.
parse_fit_file(file) ==
    [status |-> "ok",
     steps |-> ProcessSteps([i \in 1..Len(file.workout_step) |->
                                ReadWorkoutStep(file.workout_step[i])],
                            ReadExerciseTitles(file.exercise_title), 0, <<>>)]

---------------------------------------------------------------------------
(* Inputs *)

NoOverride == [enabled |-> FALSE, restType |-> "None", restSec |-> None]

NoWarmup == [enabled |-> FALSE, durationSec |-> None, activity |-> "None"]

DefaultSettings ==
    [defaultRestType |-> "None", defaultRestSec |-> None, workoutWarmup |-> NoWarmup]

DefaultExercise(name) ==
    [name |-> name, reps |-> NoReps, reps_range |-> <<>>, sets |-> None,
     duration_sec |-> None, distance_m |-> None, rest_type |-> "None", rest_sec |-> None,
     warmup_sets |-> None, warmup_reps |-> None, stash |-> None]

DefaultBlock ==
    [structure |-> <<>>, restOverride |-> NoOverride, rest_type |-> "None",
     rest_between_sets_sec |-> None, rest_between_sec |-> None,
     rest_between_rounds_sec |-> None, warmup_enabled |-> FALSE,
     warmup_activity |-> "None", warmup_duration_sec |-> None,
     supersets |-> <<>>, exercises |-> <<>>]

Superset(exercises, rest_between_sec, rest_type) ==
    [exercises |-> exercises, rest_between_sec |-> rest_between_sec, rest_type |-> rest_type]

Workout(settings, blocks) == [settings |-> settings, blocks |-> blocks]

---------------------------------------------------------------------------
(* Bounds of the inputs *)

MaxBlocks == 2

MaxExercises == 2

MaxSets == 3

\* sequences of exactly n elements of E
RECURSIVE SeqsOfLen(_, _)
SeqsOfLen(E, n) ==
    IF n = 0 THEN {<<>>}
    ELSE {<<e>> \o s : e \in E, s \in SeqsOfLen(E, n - 1)}

\* sequences of non-empty supersets holding m exercises of E in all, each
\* with one of the rest settings R
RECURSIVE SupersetSeqs(_, _, _)
SupersetSeqs(E, R, m) ==
    IF m = 0 THEN {<<>>}
    ELSE UNION {{<<Superset(x, r.rest_between_sec, r.rest_type)>> \o rest :
                    x \in SeqsOfLen(E, k), r \in R, rest \in SupersetSeqs(E, R, m - k)} :
                k \in 1..m}

\* the blocks made from a template of B that hold n exercises in all
BlocksOf(E, R, B, n) ==
    UNION {{[b EXCEPT !.supersets = ss, !.exercises = xs] :
                b \in B, ss \in SupersetSeqs(E, R, m), xs \in SeqsOfLen(E, n - m)} :
           m \in 0..n}

\* sequences of at most nb blocks that hold at most n exercises in all
RECURSIVE BlockSeqs(_, _, _, _, _)
BlockSeqs(E, R, B, nb, n) ==
    IF nb = 0 THEN {<<>>}
    ELSE {<<>>} \cup
         UNION {{<<b>> \o rest : b \in BlocksOf(E, R, B, k),
                                 rest \in BlockSeqs(E, R, B, nb - 1, n - k)} :
                k \in 0..n}

S_Run == <<"R", "u", "n">>

S_rounds == <<" ", "r", "o", "u", "n", "d", "s">>

\* the structure label "<n> rounds", n a single digit
Rounds(n) == <<DIGITS[n + 1]>> \o S_rounds

\* no file to read
NoFile == [exercise_title |-> <<>>, workout_step |-> <<>>]

\* no direct call of a function
NoArgs == [fn |-> "none"]

\* no caller is inside get_lookup
NoCallers == <<>>

\* the state before the first call, for a caller holding workout w, file
\* file and the arguments call of a direct call
Begin(w, lap_button, data, file, call) ==
    /\ blocks_json = w
    /\ use_lap_button = lap_button
    /\ garmin_exercises = data
    /\ _lookup = None
    /\ steps = <<>>
    /\ category_ids_used = {}
    /\ fit = NotBuilt
    /\ pc = "start"
    /\ preview_steps = <<>>
    /\ fitfile = file
    /\ workout_data = NotParsed
    /\ args = call
    /\ result = <<>>
    /\ objects = <<>>
    /\ instance = 0
    /\ callers = NoCallers

\* the state before the first call, for a caller holding workout w
Start(w, lap_button, data) == Begin(w, lap_button, data, NoFile, NoArgs)

SampleData == [exercises |-> <<>>, keywords |-> <<>>]

---------------------------------------------------------------------------
(* Workouts of every block / superset / standalone arrangement *)

WithWarmupSets(exercise, n) ==
    [exercise EXCEPT !.warmup_sets = Some(n), !.warmup_reps = Some(5)]

StructExercises ==
    {[DefaultExercise(S_Run) EXCEPT !.sets = Some(1)],
     [DefaultExercise(S_Run) EXCEPT !.sets = Some(MaxSets)],
     WithWarmupSets(DefaultExercise(S_Run), 2)}

\* the structure label of the blocks and the rest of the supersets
StructOptions ==
    {[structure |-> <<>>, rest_between_sec |-> None, rest_type |-> "None"],
     [structure |-> Rounds(2), rest_between_sec |-> Some(20), rest_type |-> "timed"]}

StructWorkouts ==
    UNION {{Workout(DefaultSettings, bs) :
                bs \in BlockSeqs(StructExercises,
                                 {[rest_between_sec |-> o.rest_between_sec,
                                   rest_type |-> o.rest_type]},
                                 {[DefaultBlock EXCEPT !.structure = o.structure]},
                                 MaxBlocks, MaxExercises)} :
           o \in StructOptions}

---------------------------------------------------------------------------
(* Workouts of one block that holds one superset, or one standalone exercise *)

\* the names "Run A", "Run B", ...
Name(i) == S_Run \o <<" ", UPPER[i]>>

\* k exercises, the first with two warm-up sets when wu
Exercises(k, wu) ==
    [i \in 1..k |-> IF wu /\ i = 1 THEN WithWarmupSets(DefaultExercise(Name(i)), 2)
                    ELSE DefaultExercise(Name(i))]

Structures == {<<>>} \cup {Rounds(r) : r \in 1..MaxSets}

SupersetWorkouts ==
    {Workout(DefaultSettings,
             <<[DefaultBlock EXCEPT
                    !.structure = structure,
                    !.warmup_enabled = warmup_enabled,
                    !.supersets = <<Superset(Exercises(k, wu), rest_between_sec, rest_type)>>]>>) :
        structure \in Structures, warmup_enabled \in BOOLEAN,
        k \in 1..MaxExercises, wu \in BOOLEAN,
        rest_between_sec \in {None, Some(0), Some(20)},
        rest_type \in {"None", "timed", "button"}}

StandaloneExercises ==
    {[DefaultExercise(S_Run) EXCEPT
            !.sets = sets, !.warmup_sets = warmup_sets, !.warmup_reps = Some(5),
            !.rest_type = rest.rest_type, !.rest_sec = rest.rest_sec] :
        sets \in {None} \cup {Some(n) : n \in 0..MaxSets},
        warmup_sets \in {None, Some(1), Some(2)},
        rest \in {[rest_type |-> "None", rest_sec |-> None],
                  [rest_type |-> "timed", rest_sec |-> Some(15)]}}

StandaloneWorkouts ==
    {Workout(DefaultSettings,
             <<[DefaultBlock EXCEPT !.structure = structure, !.exercises = <<exercise>>]>>) :
        structure \in {<<>>, Rounds(2)}, exercise \in StandaloneExercises}

Init ==
    \/ \E w \in StructWorkouts : Start(w, FALSE, SampleData)
    \/ \E w \in SupersetWorkouts \cup StandaloneWorkouts, lap_button \in BOOLEAN :
            Start(w, lap_button, SampleData)

---------------------------------------------------------------------------
(* Workouts whose names meet a dictionary: every strategy of find *)

S_Press == <<"P", "r", "e", "s", "s">>

S_leg_press == <<"l", "e", "g", " ", "p", "r", "e", "s", "s">>

S_press == <<"p", "r", "e", "s", "s">>

\* a dictionary with one exercise and one keyword, both of category c
LookupData(c) ==
    [exercises |-> <<[key |-> S_leg_press, category_id |-> c, category_name |-> S_Press,
                      display_name |-> S_Press, exercise_name_id |-> Some(7)]>>,
     keywords |-> <<[keyword |-> S_press, category_id |-> c, category_name |-> S_Press,
                     display_name |-> None, exercise_name_id |-> None]>>]

\* category ids below, inside, and above the valid range, in and out of the
\* fallback table
CategoryIds == {-1, 0, 32, 33, 39, 44}

\* an exact key, a keyword, a near miss of the key, a built-in keyword and
\* an unknown name
LookupNames ==
    {<<"L", "e", "g", " ", "P", "r", "e", "s", "s">>,
     S_Press,
     <<"L", "e", "g", " ", "P", "r", "e", "s">>,
     S_Run,
     <<"X", "y", "z">>}

LookupWorkouts ==
    {Workout(DefaultSettings, <<[DefaultBlock EXCEPT !.exercises = xs]>>) :
        xs \in UNION {SeqsOfLen({DefaultExercise(n) : n \in LookupNames}, k) :
                        k \in 1..MaxExercises}}

InitLookup ==
    \E w \in LookupWorkouts, c \in CategoryIds : Start(w, FALSE, LookupData(c))

---------------------------------------------------------------------------
(* Workouts of one standalone exercise with rest settings at every level,
   followed by a second block so that the exercise is not the last one *)

RestExercises ==
    {[DefaultExercise(S_Run) EXCEPT !.sets = sets, !.rest_type = rest_type,
                                    !.rest_sec = rest_sec] :
        sets \in {Some(1), Some(MaxSets)},
        rest_type \in {"None", "timed", "button"},
        rest_sec \in {None, Some(0), Some(15)}}

RestOverrides ==
    {[enabled |-> FALSE, restType |-> "button", restSec |-> Some(40)]}
    \cup {[enabled |-> TRUE, restType |-> restType, restSec |-> restSec] :
            restType \in {"None", "timed", "button"}, restSec \in {None, Some(40)}}

\* the legacy fields of a block
RestLegacy ==
    {[rest_type |-> "None", rest_between_sets_sec |-> None],
     [rest_type |-> "button", rest_between_sets_sec |-> None],
     [rest_type |-> "timed", rest_between_sets_sec |-> Some(25)]}

RestSettings ==
    {DefaultSettings,
     [DefaultSettings EXCEPT !.defaultRestType = "timed", !.defaultRestSec = Some(60)],
     [DefaultSettings EXCEPT !.defaultRestType = "button"]}

RestWorkouts ==
    {Workout(settings,
             <<[DefaultBlock EXCEPT !.restOverride = restOverride,
                                    !.rest_type = legacy.rest_type,
                                    !.rest_between_sets_sec = legacy.rest_between_sets_sec,
                                    !.exercises = <<exercise>>],
               [DefaultBlock EXCEPT !.exercises = <<DefaultExercise(S_Run)>>]>>) :
        settings \in RestSettings, restOverride \in RestOverrides,
        legacy \in RestLegacy, exercise \in RestExercises}

InitRest == \E w \in RestWorkouts : Start(w, FALSE, SampleData)

---------------------------------------------------------------------------
(* Workouts of one standalone exercise with every duration signal *)

S_500m == <<"5", "0", "0", "m">>

S_2km == <<"2", " ", "k", "m">>

S_8to12 == <<"8", "-", "1", "2">>

S_amrap == <<"a", "m", "r", "a", "p">>

S_6to8 == <<"6", "-", "8">>

DurationExercises ==
    {[DefaultExercise(S_Run) EXCEPT
            !.distance_m = distance_m, !.reps = reps, !.duration_sec = duration_sec,
            !.reps_range = reps_range, !.warmup_sets = warmup_sets,
            !.warmup_reps = Some(5)] :
        distance_m \in {None, Some(0), Some(400)},
        reps \in {NoReps, RepsInt(0), RepsInt(10), RepsStr(S_500m), RepsStr(S_2km),
                  RepsStr(S_8to12), RepsStr(S_amrap)},
        duration_sec \in {None, Some(0), Some(30)},
        reps_range \in {<<>>, S_6to8},
        warmup_sets \in {None, Some(2)}}

DurationWorkouts ==
    {Workout(DefaultSettings, <<[DefaultBlock EXCEPT !.exercises = <<exercise>>]>>) :
        exercise \in DurationExercises}

InitDuration ==
    \E w \in DurationWorkouts, lap_button \in BOOLEAN : Start(w, lap_button, SampleData)

---------------------------------------------------------------------------
(* The callers *)

\* a caller runs blocks_to_steps(blocks_json, use_lap_button)
CallBlocksToSteps ==
    \E lookup \in {get_lookup(_lookup, garmin_exercises)} :
    \E r \in {blocks_to_steps(blocks_json, use_lap_button, Val(lookup))} :
        /\ _lookup' = lookup
        /\ objects' = Constructed(_lookup, objects, garmin_exercises)
        /\ instance' = Referenced(_lookup, objects, instance)
        /\ blocks_json' = r.blocks_json
        /\ steps' = r.steps
        /\ category_ids_used' = r.category_ids_used
        /\ pc' = "compiled"
        /\ UNCHANGED <<use_lap_button, garmin_exercises, fit, others>>

\* a caller runs build_fit_workout(blocks_json, use_lap_button=use_lap_button)
CallBuildFitWorkout ==
    \E lookup \in {get_lookup(_lookup, garmin_exercises)} :
    \E r \in {blocks_to_steps(blocks_json, use_lap_button, Val(lookup))} :
        /\ _lookup' = lookup
        /\ objects' = Constructed(_lookup, objects, garmin_exercises)
        /\ instance' = Referenced(_lookup, objects, instance)
        /\ blocks_json' = r.blocks_json
        /\ steps' = r.steps
        /\ category_ids_used' = r.category_ids_used
        /\ fit' = build_fit_workout(r.steps, r.category_ids_used, "None")
        /\ pc' = "built"
        /\ UNCHANGED <<use_lap_button, garmin_exercises, others>>

Next == CallBlocksToSteps \/ CallBuildFitWorkout

Spec == Init /\ [][Next]_vars

SpecLookup == InitLookup /\ [][Next]_vars

SpecRest == InitRest /\ [][Next]_vars

SpecDuration == InitDuration /\ [][Next]_vars


---------------------------------------------------------------------------
(* Direct calls of validate_category_id and detect_sport_type *)

\* category ids handed to validate_category_id: -MaxId .. MAX_VALID_CATEGORY_ID + MaxId
MaxId == 70

\* size of the category sets handed to detect_sport_type
MaxCategories == 3

NoWorkout == Workout(DefaultSettings, <<>>)

InitValidate ==
    \E category_id \in (0 - MaxId)..(MAX_VALID_CATEGORY_ID + MaxId) :
        Begin(NoWorkout, FALSE, SampleData, NoFile,
              [fn |-> "validate_category_id", given |-> category_id,
               category_id |-> category_id])

\* validate_category_id(category_id), called on the id the caller was given
\* or, once it has returned, on what it returned
CallValidateCategoryId ==
    /\ args.fn = "validate_category_id"
    /\ \E category_id \in {args.given} \cup (IF pc = "returned" THEN {result} ELSE {}) :
        /\ args' = [args EXCEPT !.category_id = category_id]
        /\ result' = validate_category_id(category_id)
    /\ pc' = "returned"
    /\ UNCHANGED <<blocks_json, use_lap_button, garmin_exercises, _lookup, steps,
                   category_ids_used, fit, preview_steps, fitfile, workout_data,
                   objects, instance, callers>>

NextValidate == CallValidateCategoryId

SpecValidate == InitValidate /\ [][NextValidate]_vars

\* the sets of at most k category ids of -1 .. MAX_VALID_CATEGORY_ID + 1
RECURSIVE CategorySets(_)
CategorySets(k) ==
    IF k = 0 THEN {{}}
    ELSE {S \cup {c} : S \in CategorySets(k - 1), c \in (0 - 1)..(MAX_VALID_CATEGORY_ID + 1)}
         \cup {{}}

InitSport ==
    \E category_ids \in CategorySets(MaxCategories) :
        Begin(NoWorkout, FALSE, SampleData, NoFile,
              [fn |-> "detect_sport_type", category_ids |-> category_ids])

\* detect_sport_type(category_ids)
CallDetectSportType ==
    /\ args.fn = "detect_sport_type"
    /\ result' = detect_sport_type(args.category_ids)
    /\ pc' = "returned"
    /\ UNCHANGED <<blocks_json, use_lap_button, garmin_exercises, _lookup, steps,
                   category_ids_used, fit, preview_steps, fitfile, workout_data, args,
                   objects, instance, callers>>

NextSport == CallDetectSportType

SpecSport == InitSport /\ [][NextSport]_vars

---------------------------------------------------------------------------
(* Files handed to parse_fit_file *)

\* number of workout_step messages of a file
MaxRecords == 4

\* repeat count of a repeat message (2 .. MaxCount)
MaxCount == 2

S_A == <<"A">>

S_B == <<"B">>

S_squat == <<"s", "q", "u", "a", "t">>

S_core == <<"c", "o", "r", "e">>

\* the workout_step message of an exercise that carries its name
RecordA ==
    [wkt_step_name |-> S_A, exercise_category |-> S_core, exercise_name |-> Some(1),
     duration_type |-> "reps", duration_reps |-> Some(10), intensity |-> "active",
     target_type |-> "open"]

\* the workout_step message of an exercise named by its title message
RecordB ==
    [exercise_category |-> S_squat, exercise_name |-> Some(0),
     duration_type |-> "reps", duration_reps |-> Some(8), intensity |-> "active",
     target_type |-> "open"]

\* the workout_step message of a timed rest
RecordRest ==
    [wkt_step_name |-> S_Rest, duration_type |-> "time", duration_time |-> Some(30),
     intensity |-> "rest", target_type |-> "open"]

\* the workout_step message of a repeat: fitparse names duration_value
\* duration_step and target_value repeat_steps for this duration type
RecordRepeat(duration_step, repeat_steps) ==
    [duration_type |-> "repeat_until_steps_cmplt", duration_step |-> Some(duration_step),
     repeat_steps |-> Some(repeat_steps)]

\* the exercise_title message of RecordB
TitleB == [wkt_step_name |-> S_B, exercise_category |-> S_squat, exercise_name |-> Some(0)]

\* the streams of n messages: exercises, rests, and repeats that point at an
\* earlier message
RECURSIVE RecordStreams(_)
RecordStreams(n) ==
    IF n = 0 THEN {<<>>}
    ELSE {Append(s, r) :
            s \in RecordStreams(n - 1),
            r \in {RecordA, RecordB, RecordRest}
                  \cup {RecordRepeat(t, c) : t \in 0..(n - 2), c \in 2..MaxCount}}

Files ==
    {[exercise_title |-> titles, workout_step |-> stream] :
        titles \in {<<>>, <<TitleB>>},
        stream \in UNION {RecordStreams(n) : n \in 0..MaxRecords}}

InitParser == \E file \in Files : Begin(NoWorkout, FALSE, SampleData, file, NoArgs)

\* parse_fit_file(filepath) on a file fitparse can read
CallParseFitFile ==
    /\ workout_data' = parse_fit_file(fitfile)
    /\ pc' = "parsed"
    /\ UNCHANGED <<blocks_json, use_lap_button, garmin_exercises, _lookup, steps,
                   category_ids_used, fit, preview_steps, fitfile, args, result,
                   objects, instance, callers>>

NextParser == CallParseFitFile

SpecParser == InitParser /\ [][NextParser]_vars

---------------------------------------------------------------------------
(* Names handed to GarminExerciseLookup.find *)

S_run == <<"r", "u", "n">>

\* the dictionary entry "leg press" of category c
LegPressEntry(c) ==
    [key |-> S_leg_press, category_id |-> c, category_name |-> S_Press,
     display_name |-> S_Press, exercise_name_id |-> Some(7)]

\* the dictionary entry "run" of category 32, a key that holds a built-in
\* keyword
RunEntry ==
    [key |-> S_run, category_id |-> 32, category_name |-> S_Run,
     display_name |-> S_Run, exercise_name_id |-> Some(0)]

\* the secondary keyword "press"
PressKeyword ==
    [keyword |-> S_press, category_id |-> 24, category_name |-> S_Press,
     display_name |-> None, exercise_name_id |-> None]

\* dictionaries with and without each entry
FindData ==
    {[exercises |-> leg \o run, keywords |-> kw] :
        leg \in {<<>>, <<LegPressEntry(15)>>, <<LegPressEntry(38)>>},
        run \in {<<>>, <<RunEntry>>},
        kw \in {<<>>, <<PressKeyword>>}}

\* an exact key, a decorated exact key, a keyword, a near miss of the key, a
\* built-in keyword that is a key as well, a name holding a built-in
\* keyword, and an unknown name
FindNames ==
    {<<"L", "e", "g", " ", "P", "r", "e", "s", "s">>,
     <<"D", "B", " ", "L", "e", "g", " ", "P", "r", "e", "s", "s", " ", "x", "1", "0">>,
     <<"P", "r", "e", "s", "s">>,
     <<"L", "e", "g", " ", "P", "r", "e", "s">>,
     <<"R", "u", "n">>,
     <<"B", "u", "r", "p", "e", "e">>,
     <<"X", "y", "z">>}

\* workouts of one exercise, or of one exercise and a second of unknown or
\* built-in name
FindWorkouts ==
    {Workout(DefaultSettings, <<[DefaultBlock EXCEPT !.exercises = xs]>>) :
        xs \in {<<DefaultExercise(n)>> : n \in FindNames}
               \cup {<<DefaultExercise(n), DefaultExercise(m)>> :
                        n \in FindNames, m \in {<<"X", "y", "z">>, <<"R", "u", "n">>}}}

\* the caller resolves the name of the workout's first exercise
InitFind ==
    \E w \in FindWorkouts, data \in FindData :
        Begin(w, FALSE, data, NoFile,
              [fn |-> "find", exercise_name |-> w.blocks[1].exercises[1].name])

\* get_lookup().find(exercise_name)
CallFind ==
    /\ args.fn = "find"
    /\ \E lookup \in {get_lookup(_lookup, garmin_exercises)} :
        /\ _lookup' = lookup
        /\ objects' = Constructed(_lookup, objects, garmin_exercises)
        /\ instance' = Referenced(_lookup, objects, instance)
        /\ result' = find(Val(lookup), args.exercise_name)
    /\ pc' = "returned"
    /\ UNCHANGED <<blocks_json, use_lap_button, garmin_exercises, steps, category_ids_used,
                   fit, preview_steps, fitfile, workout_data, args, callers>>

NextFind == CallFind \/ CallBlocksToSteps

SpecFind == InitFind /\ [][NextFind]_vars

---------------------------------------------------------------------------
(* Preview and build of one workout *)

\* a caller runs get_preview_steps(blocks_json, use_lap_button)
CallGetPreviewSteps ==
    \E lookup \in {get_lookup(_lookup, garmin_exercises)} :
    \E r \in {blocks_to_steps(blocks_json, use_lap_button, Val(lookup))} :
        /\ _lookup' = lookup
        /\ objects' = Constructed(_lookup, objects, garmin_exercises)
        /\ instance' = Referenced(_lookup, objects, instance)
        /\ blocks_json' = r.blocks_json
        /\ preview_steps' = Some(get_preview_steps(r.steps))
        /\ pc' = "previewed"
        /\ UNCHANGED <<use_lap_button, garmin_exercises, steps, category_ids_used, fit,
                       fitfile, workout_data, args, result, callers>>

NextPreview == CallGetPreviewSteps \/ CallBuildFitWorkout

SpecPreview == Init /\ [][NextPreview]_vars

---------------------------------------------------------------------------
(* Programs of one or two blocks: supersets and standalone exercises with
   and without rests, block warm-ups, rests after a block, empty blocks *)

\* the rest of a superset: inherited, 20 s timed, none
ProgramSupersets ==
    {Superset(<<DefaultExercise(Name(1)), DefaultExercise(Name(2))>>, rest.sec, rest.type) :
        rest \in {[sec |-> None, type |-> "None"],
                  [sec |-> Some(20), type |-> "timed"],
                  [sec |-> Some(0), type |-> "timed"]}}

\* a standalone exercise: one set with the inherited rest, with a 15 s rest,
\* the block's rounds as sets with no rest, and two sets
ProgramExercise(name) ==
    {[DefaultExercise(name) EXCEPT !.sets = Some(1)],
     [DefaultExercise(name) EXCEPT !.sets = Some(1), !.rest_type = "timed", !.rest_sec = Some(15)],
     [DefaultExercise(name) EXCEPT !.rest_type = "timed"],
     [DefaultExercise(name) EXCEPT !.sets = Some(2)]}

\* what a block holds
ProgramContents ==
    {[supersets |-> <<>>, exercises |-> <<>>]}
    \cup {[supersets |-> <<s>>, exercises |-> <<>>] : s \in ProgramSupersets}
    \cup {[supersets |-> <<s>>, exercises |-> <<x>>] :
            s \in ProgramSupersets, x \in ProgramExercise(Name(3))}
    \cup {[supersets |-> <<s, t>>, exercises |-> <<>>] : s, t \in ProgramSupersets}
    \cup {[supersets |-> <<>>, exercises |-> <<x>>] : x \in ProgramExercise(Name(3))}
    \cup {[supersets |-> <<>>, exercises |-> <<x, y>>] :
            x \in ProgramExercise(Name(3)), y \in ProgramExercise(Name(4))}

ProgramBlocks ==
    {[DefaultBlock EXCEPT !.structure = structure,
                          !.warmup_enabled = warmup_enabled,
                          !.warmup_activity = "stretching",
                          !.warmup_duration_sec = Some(120),
                          !.rest_between_rounds_sec = rest_between_rounds_sec,
                          !.supersets = content.supersets,
                          !.exercises = content.exercises] :
        structure \in {<<>>, Rounds(2)}, warmup_enabled \in BOOLEAN,
        rest_between_rounds_sec \in {None, Some(45)}, content \in ProgramContents}

\* the blocks that may end a program of two blocks
ProgramLastBlocks ==
    {DefaultBlock,
     [DefaultBlock EXCEPT !.warmup_enabled = TRUE, !.warmup_activity = "stretching",
                          !.warmup_duration_sec = Some(120)],
     [DefaultBlock EXCEPT !.exercises = <<[DefaultExercise(Name(5)) EXCEPT !.sets = Some(1)]>>],
     [DefaultBlock EXCEPT !.supersets = <<Superset(<<DefaultExercise(Name(5))>>, None, "None")>>],
     [DefaultBlock EXCEPT !.structure = Rounds(2),
                          !.supersets = <<Superset(<<DefaultExercise(Name(5))>>, None, "None")>>]}

\* the global warm-up: none, or five minutes of rowing
ProgramWarmups == {NoWarmup, [enabled |-> TRUE, durationSec |-> Some(300), activity |-> "rowing"]}

ProgramWorkouts ==
    {Workout([DefaultSettings EXCEPT !.workoutWarmup = workoutWarmup], bs) :
        workoutWarmup \in ProgramWarmups,
        bs \in {<<b>> : b \in ProgramBlocks}
               \cup {<<b, l>> : b \in ProgramBlocks, l \in ProgramLastBlocks}}

InitProgram == \E w \in ProgramWorkouts : Start(w, FALSE, SampleData)

SpecProgram == InitProgram /\ [][Next]_vars

---------------------------------------------------------------------------
(* Names in and out of title case, against dictionary entries with and
   without a display name *)

\* the entry "leg press" of category Squat, shown as "Press"
NamedEntry ==
    [key |-> S_leg_press, category_id |-> 28, category_name |-> S_Squat,
     display_name |-> S_Press, exercise_name_id |-> Some(7)]

\* the entry "calf raise", which has no display name
UnnamedEntry ==
    [key |-> <<"c", "a", "l", "f", " ", "r", "a", "i", "s", "e">>, category_id |-> 1, category_name |-> S_Core,
     display_name |-> None, exercise_name_id |-> None]

DisplayData ==
    {[exercises |-> ex, keywords |-> kw] :
        ex \in {<<>>, <<NamedEntry, UnnamedEntry>>}, kw \in {<<>>, <<PressKeyword>>}}

\* exact keys, near misses, keyword and built-in keyword holders and unknown
\* names, each in title case and in lower case
DisplayNames ==
    {<<"L", "e", "g", " ", "P", "r", "e", "s", "s">>,
     <<"l", "e", "g", " ", "p", "r", "e", "s", "s">>,
     <<"L", "e", "g", " ", "P", "r", "e", "s">>,
     <<"l", "e", "g", " ", "p", "r", "e", "s">>,
     <<"C", "a", "l", "f", " ", "R", "a", "i", "s", "e">>,
     <<"c", "a", "l", "f", " ", "r", "a", "i", "s", "e">>,
     <<"B", "e", "n", "c", "h", " ", "P", "r", "e", "s", "s">>,
     <<"b", "e", "n", "c", "h", " ", "p", "r", "e", "s", "s">>,
     <<"E", "a", "s", "y", " ", "R", "u", "n">>,
     <<"e", "a", "s", "y", " ", "r", "u", "n">>,
     <<"X", "y", "z">>,
     <<"x", "y", "z">>}

DisplayWorkouts ==
    {Workout(DefaultSettings, <<[DefaultBlock EXCEPT !.exercises = <<DefaultExercise(n)>>]>>) :
        n \in DisplayNames}

InitDisplay ==
    \E w \in DisplayWorkouts, data \in DisplayData :
        Begin(w, FALSE, data, NoFile,
              [fn |-> "find", exercise_name |-> w.blocks[1].exercises[1].name])

SpecDisplay == InitDisplay /\ [][NextFind]_vars

---------------------------------------------------------------------------
(* A built workout read back: build_fit_workout, then parse_fit_file *)

\* the text fitparse gives for an exercise category: the name of the FIT
\* profile (lower case, "_" between the words) for 0..32, the number itself
\* for a value the profile does not name
CategoryText(category_id) ==
    IF category_id >= 0 /\ category_id + 1 \in DOMAIN EXERCISE_CATEGORY_NAMES
    THEN [i \in 1..Len(EXERCISE_CATEGORY_NAMES[category_id + 1]) |->
            IF EXERCISE_CATEGORY_NAMES[category_id + 1][i] = " " THEN "_"
            ELSE LowerChar(EXERCISE_CATEGORY_NAMES[category_id + 1][i])]
    ELSE IntToStr(category_id)

\* the exercise_title message fitparse reads for an ExerciseTitleMessage
\* (fit_builder.py 722-727, fit_parser.py 251-257)
TitleRecord(etm) ==
    [wkt_step_name |-> etm.workout_step_name,
     exercise_category |-> CategoryText(etm.exercise_category),
     exercise_name |-> Some(etm.exercise_name)]

\* the duration field fitparse names after the duration type: duration_reps,
\* duration_time (seconds) or duration_distance (metres); none for OPEN
DurationField(ws) ==
    IF ws.duration_type = "REPS" THEN "duration_reps" :> Some(ws.duration_value)
    ELSE IF ws.duration_type = "TIME" THEN "duration_time" :> Some(ws.duration_value \div 1000)
    ELSE IF ws.duration_type = "DISTANCE"
        THEN "duration_distance" :> Some(ws.duration_value \div 100)
    ELSE NoKeys

\* the workout_step message fitparse reads for a WorkoutStepMessage
\* (fit_builder.py 731-788, fit_parser.py 279-316): enumerations by their
\* lower-case names, the repeat's duration_step and target_value as
\* duration_step and repeat_steps
StepRecord(ws) ==
    IF ws.duration_type = "REPEAT_UNTIL_STEPS_CMPLT"
    THEN [duration_type |-> "repeat_until_steps_cmplt",
          duration_step |-> Some(ws.duration_step),
          repeat_steps |-> Some(ws.target_value)]
    ELSE IF ws.intensity = "ACTIVE"
    THEN DurationField(ws)
         @@ [wkt_step_name |-> ws.workout_step_name,
             exercise_category |-> CategoryText(ws.exercise_category),
             exercise_name |-> Some(ws.exercise_name),
             duration_type |-> IF ws.duration_type = "REPS" THEN "reps"
                               ELSE IF ws.duration_type = "TIME" THEN "time"
                               ELSE IF ws.duration_type = "DISTANCE" THEN "distance"
                               ELSE "open",
             intensity |-> "active", target_type |-> "open"]
    ELSE DurationField(ws)
         @@ [wkt_step_name |-> ws.workout_step_name,
             duration_type |-> IF ws.duration_type = "TIME" THEN "time" ELSE "open",
             intensity |-> IF ws.intensity = "REST" THEN "rest" ELSE "warmup",
             target_type |-> "open"]

\* the file of the bytes build_fit_workout returns (fit_builder.py 790-801),
\* as the messages FitFile(filepath) yields (fit_parser.py 221, 249, 280)
FitFileOf(built) ==
    [exercise_title |->
        [i \in 1..Len(built.exercise_titles) |-> TitleRecord(built.exercise_titles[i])],
     workout_step |->
        [i \in 1..Len(built.workout_steps) |-> StepRecord(built.workout_steps[i])]]

\* the caller writes the bytes build_fit_workout returned to a file
SaveFitFile ==
    /\ pc = "built"
    /\ fit.status = "ok"
    /\ fitfile' = FitFileOf(fit)
    /\ pc' = "saved"
    /\ UNCHANGED <<blocks_json, use_lap_button, garmin_exercises, _lookup, steps,
                   category_ids_used, fit, preview_steps, workout_data, args, result,
                   objects, instance, callers>>

\* the caller reads the file it saved
ReadSavedFile ==
    /\ pc = "saved"
    /\ CallParseFitFile

NextRoundTrip == CallBuildFitWorkout \/ SaveFitFile \/ ReadSavedFile

SpecRoundTrip == Init /\ [][NextRoundTrip]_vars

---------------------------------------------------------------------------
(* Callers that run get_lookup at the same time (threads of one process) *)

\* number of callers
MaxCallers == 2

\* number of calls one caller makes
MaxCalls == 2

\* a caller outside every call: call is the function it runs, made the
\* object it has constructed, got the object get_lookup returned to it
\* (indices into objects, 0 for none), calls the number of calls it has begun
Idle == [at |-> "idle", call |-> "none", made |-> 0, got |-> 0, calls |-> 0]

CallerWorkouts ==
    {Workout(DefaultSettings, <<[DefaultBlock EXCEPT !.exercises = <<DefaultExercise(n)>>]>>) :
        n \in {<<"L", "e", "g", " ", "P", "r", "e", "s", "s">>, <<"X", "y", "z">>}}

InitCallers ==
    \E w \in CallerWorkouts, data \in {SampleData, LookupData(15)} :
        /\ blocks_json = w
        /\ use_lap_button = FALSE
        /\ garmin_exercises = data
        /\ _lookup = None
        /\ steps = <<>>
        /\ category_ids_used = {}
        /\ fit = NotBuilt
        /\ pc = "start"
        /\ preview_steps = <<>>
        /\ fitfile = NoFile
        /\ workout_data = NotParsed
        /\ args = [fn |-> "find", exercise_name |-> w.blocks[1].exercises[1].name]
        /\ result = <<>>
        /\ objects = <<>>
        /\ instance = 0
        /\ callers = [t \in 1..MaxCallers |-> Idle]

\* caller t begins get_lookup(), get_lookup().find(name) or
\* blocks_to_steps(workout), whose first statement is lookup = get_lookup()
\* (fit_builder.py 187)
Enter(t) ==
    /\ callers[t].at = "idle"
    /\ callers[t].calls < MaxCalls
    /\ \E call \in {"get_lookup", "find", "blocks_to_steps"} :
        callers' = [callers EXCEPT ![t] = [at |-> "test", call |-> call, made |-> 0,
                                          got |-> callers[t].got,
                                          calls |-> callers[t].calls + 1]]
    /\ UNCHANGED <<blocks_json, use_lap_button, garmin_exercises, _lookup, steps,
                   category_ids_used, fit, pc, preview_steps, fitfile, workout_data,
                   args, result, objects, instance>>

\* "if _lookup is None:" (garmin_lookup.py 241)
Test(t) ==
    /\ callers[t].at = "test"
    /\ callers' = [callers EXCEPT ![t].at = IF _lookup = None THEN "construct" ELSE "return"]
    /\ UNCHANGED <<blocks_json, use_lap_button, garmin_exercises, _lookup, steps,
                   category_ids_used, fit, pc, preview_steps, fitfile, workout_data,
                   args, result, objects, instance>>

\* "GarminExerciseLookup(data_path)" (242, 72-111): the data file is opened
\* and loaded into the tables of a new object
Construct(t) ==
    /\ callers[t].at = "construct"
    /\ objects' = Append(objects, GarminExerciseLookup(garmin_exercises))
    /\ callers' = [callers EXCEPT ![t].at = "assign", ![t].made = Len(objects) + 1]
    /\ UNCHANGED <<blocks_json, use_lap_button, garmin_exercises, _lookup, steps,
                   category_ids_used, fit, pc, preview_steps, fitfile, workout_data,
                   args, result, instance>>

\* "_lookup = ..." (242): the global is bound to the object just constructed
Assign(t) ==
    /\ callers[t].at = "assign"
    /\ _lookup' = Some(objects[callers[t].made])
    /\ instance' = callers[t].made
    /\ callers' = [callers EXCEPT ![t].at = "return"]
    /\ UNCHANGED <<blocks_json, use_lap_button, garmin_exercises, steps,
                   category_ids_used, fit, pc, preview_steps, fitfile, workout_data,
                   args, result, objects>>

\* "return _lookup" (243)
Return(t) ==
    /\ callers[t].at = "return"
    /\ callers' = [callers EXCEPT ![t].at = IF callers[t].call = "get_lookup" THEN "idle" ELSE "use",
                                  ![t].got = instance]
    /\ UNCHANGED <<blocks_json, use_lap_button, garmin_exercises, _lookup, steps,
                   category_ids_used, fit, pc, preview_steps, fitfile, workout_data,
                   args, result, objects, instance>>

\* ".find(exercise_name)" on the object get_lookup returned
UseFind(t) ==
    /\ callers[t].at = "use"
    /\ callers[t].call = "find"
    /\ result' = find(objects[callers[t].got], args.exercise_name)
    /\ pc' = "returned"
    /\ callers' = [callers EXCEPT ![t].at = "idle"]
    /\ UNCHANGED <<blocks_json, use_lap_button, garmin_exercises, _lookup, steps,
                   category_ids_used, fit, preview_steps, fitfile, workout_data,
                   args, objects, instance>>

\* the rest of blocks_to_steps (fit_builder.py 188-550) with the object
\* get_lookup returned
UseBlocksToSteps(t) ==
    /\ callers[t].at = "use"
    /\ callers[t].call = "blocks_to_steps"
    /\ \E r \in {blocks_to_steps(blocks_json, use_lap_button, objects[callers[t].got])} :
        /\ blocks_json' = r.blocks_json
        /\ steps' = r.steps
        /\ category_ids_used' = r.category_ids_used
    /\ pc' = "compiled"
    /\ callers' = [callers EXCEPT ![t].at = "idle"]
    /\ UNCHANGED <<use_lap_button, garmin_exercises, _lookup, fit, preview_steps, fitfile,
                   workout_data, args, result, objects, instance>>

NextCallers ==
    \E t \in 1..MaxCallers :
        \/ Enter(t)
        \/ Test(t)
        \/ Construct(t)
        \/ Assign(t)
        \/ Return(t)
        \/ UseFind(t)
        \/ UseBlocksToSteps(t)

SpecCallers == InitCallers /\ [][NextCallers]_vars
---------------------------------------------------------------------------
(* The compiled step list *)

\* the indices (1-based) of the repeat markers of the compiled list
Markers == {i \in 1..Len(steps) : steps[i].type = "repeat"}

ExerciseSteps == {i \in 1..Len(steps) : steps[i].type = "exercise"}

HasWarmupSets(exercise) == Positive(exercise.warmup_sets) /\ Positive(exercise.warmup_reps)

---------------------------------------------------------------------------
(* Categories and exercise ids *)

\* C1: every exercise step blocks_to_steps returns, and every id of the
\* returned category set, has category_id in 0..32, whatever integer the
\* dictionary holds for the matched name.
C1_CategoryInRange ==
    /\ \A i \in ExerciseSteps : steps[i].category_id \in 0..MAX_VALID_CATEGORY_ID
    /\ category_ids_used \subseteq 0..MAX_VALID_CATEGORY_ID

\* the title records written for the pair of step i
TitlesOf(i) ==
    {t \in 1..Len(fit.exercise_titles) :
        /\ fit.exercise_titles[t].exercise_category = steps[i].category_id
        /\ fit.exercise_titles[t].workout_step_name = Take(steps[i].display_name, 50)}

\* C10: in build_fit_workout, two exercise steps with the same
\* (category_id, display_name) pair are emitted with the same exercise id,
\* which is the id of the pair's title record.
C10_SamePairSameId ==
    (pc = "built" /\ fit.status = "ok") =>
        \A i \in ExerciseSteps :
            /\ \A j \in ExerciseSteps :
                (steps[j].category_id = steps[i].category_id
                 /\ steps[j].display_name = steps[i].display_name)
                => fit.workout_steps[j].exercise_name = fit.workout_steps[i].exercise_name
            /\ TitlesOf(i) # {}
            /\ \A t \in TitlesOf(i) :
                fit.exercise_titles[t].exercise_name = fit.workout_steps[i].exercise_name

\* a pair met first without a resolver-supplied id and then with one
C10_Witness ==
    /\ pc = "built"
    /\ \E i, j \in ExerciseSteps :
        /\ i < j
        /\ steps[i].category_id = steps[j].category_id
        /\ steps[i].display_name = steps[j].display_name
        /\ steps[i].exercise_name_id = None
        /\ steps[j].exercise_name_id # None

---------------------------------------------------------------------------
(* Repeat markers and the shape of the compiled list *)

\* C2: in every step list blocks_to_steps returns, the target index
\* (duration_step) of each repeat marker is strictly less than the marker's
\* own 0-based position in the list.
C2_TargetBeforeMarker == \A i \in Markers : steps[i].duration_step < i - 1

\* a compiled list with a marker over warm-up sets and a later marker over
\* working sets or a superset
C2_Witness ==
    /\ pc = "compiled"
    /\ \E i, j \in Markers :
        /\ i < j
        /\ steps[steps[i].duration_step + 1].intensity = "warmup"
        /\ steps[steps[j].duration_step + 1].intensity = "active"

\* C3: every repeat marker blocks_to_steps emits (working sets, warm-up sets,
\* superset rounds) has repeat_count >= 2.
C3_RepeatCountAtLeastTwo == \A i \in Markers : steps[i].repeat_count >= 2

\* a compiled list that holds a marker of MaxSets executions next to an
\* exercise executed once, which has no marker
C3_Witness ==
    /\ pc = "compiled"
    /\ \E i \in Markers : steps[i].repeat_count = MaxSets
    /\ \E j \in ExerciseSteps :
        /\ steps[j].sets = 1
        /\ \A i \in Markers : steps[i].duration_step # j - 1

\* the workout is one block holding one superset and nothing else, the round
\* count is above 1 and the superset has a timed rest of s > 0 seconds
OneSupersetWithRest ==
    /\ Len(blocks_json.blocks) = 1
    /\ Len(blocks_json.blocks[1].exercises) = 0
    /\ Len(blocks_json.blocks[1].supersets) = 1
    /\ Len(blocks_json.blocks[1].supersets[1].exercises) >= 1
    /\ parse_structure(blocks_json.blocks[1].structure) > 1
    /\ blocks_json.blocks[1].supersets[1].rest_type = "timed"
    /\ Positive(blocks_json.blocks[1].supersets[1].rest_between_sec)

\* steps[first + 1 .. first + k] are the superset's exercises in order, then
\* come Rest(s) and a marker of r executions that targets position first
SupersetSpanAt(first) ==
    LET superset == blocks_json.blocks[1].supersets[1]
        k == Len(superset.exercises)
        r == parse_structure(blocks_json.blocks[1].structure)
        s == Val(superset.rest_between_sec)
    IN  /\ Len(steps) = first + k + 2
        /\ \A i \in 1..k :
            /\ steps[first + i].type = "exercise"
            /\ steps[first + i].original_name = superset.exercises[i].name
        /\ steps[first + k + 1].type = "rest"
        /\ steps[first + k + 1].duration_type = "time"
        /\ steps[first + k + 1].rest_seconds = s
        /\ steps[first + k + 2].type = "repeat"
        /\ steps[first + k + 2].repeat_count = r
        /\ steps[first + k + 2].duration_step = first

\* C4 as stated: such a workout compiles to exactly k + 2 steps, the k
\* exercises, Rest(s) and the marker.
C4_Original == (pc # "start" /\ OneSupersetWithRest) => SupersetSpanAt(0)

\* C4, amended: when the workout configures no warm-up and no exercise of the
\* superset has warm-up sets, it compiles to exactly k + 3 steps: the default
\* warm-up step, the k exercises in order, Rest(s), and one marker with
\* repeat_count = r that targets the superset's first exercise (index 1).
C4_SupersetSpan ==
    (/\ pc # "start"
     /\ OneSupersetWithRest
     /\ ~blocks_json.settings.workoutWarmup.enabled
     /\ ~blocks_json.blocks[1].warmup_enabled
     /\ \A i \in 1..Len(blocks_json.blocks[1].supersets[1].exercises) :
            ~HasWarmupSets(blocks_json.blocks[1].supersets[1].exercises[i]))
    => (steps[1].type = "warmup" /\ SupersetSpanAt(1))

\* the superset of two exercises with 2 rounds and a rest of 20 seconds,
\* compiled to 5 steps
C4_Witness ==
    /\ pc = "compiled"
    /\ OneSupersetWithRest
    /\ ~blocks_json.blocks[1].warmup_enabled
    /\ Len(blocks_json.blocks[1].supersets[1].exercises) = 2
    /\ ~HasWarmupSets(blocks_json.blocks[1].supersets[1].exercises[1])
    /\ parse_structure(blocks_json.blocks[1].structure) = 2
    /\ blocks_json.blocks[1].supersets[1].rest_between_sec = Some(20)
    /\ Len(steps) = 5

\* the workout is one block holding one standalone exercise without warm-up
\* sets, whose sets field is a number
OneStandalone ==
    /\ Len(blocks_json.blocks) = 1
    /\ Len(blocks_json.blocks[1].supersets) = 0
    /\ Len(blocks_json.blocks[1].exercises) = 1
    /\ ~HasWarmupSets(blocks_json.blocks[1].exercises[1])
    /\ blocks_json.blocks[1].exercises[1].sets # None

\* C5: a block of one standalone exercise without warm-up sets compiles, with
\* sets = 1, to a list without repeat marker and, with sets = n >= 2, to a
\* list with exactly one marker, of repeat_count n, that targets the position
\* of the exercise's step.
C5_SetsMarker ==
    (pc # "start" /\ OneStandalone) =>
        LET n == Val(blocks_json.blocks[1].exercises[1].sets)
        IN  /\ n = 1 => Markers = {}
            /\ n >= 2 =>
                \E m \in Markers, e \in ExerciseSteps :
                    /\ Markers = {m}
                    /\ ExerciseSteps = {e}
                    /\ steps[m].repeat_count = n
                    /\ steps[m].duration_step = e - 1

\* the exercise compiled with sets = MaxSets, in a block of 2 rounds
C5_Witness ==
    /\ pc = "compiled"
    /\ OneStandalone
    /\ blocks_json.blocks[1].exercises[1].sets = Some(MaxSets)
    /\ parse_structure(blocks_json.blocks[1].structure) = 2
    /\ Cardinality(Markers) = 1

\* no block holds an exercise
StructurallyEmpty ==
    \A b \in 1..Len(blocks_json.blocks) :
        /\ Len(blocks_json.blocks[b].exercises) = 0
        /\ \A s \in 1..Len(blocks_json.blocks[b].supersets) :
                Len(blocks_json.blocks[b].supersets[s].exercises) = 0

\* C6: build_fit_workout on a workout without any exercise raises the
\* 'No exercises found' error and hands no messages to the builder.
C6_EmptyRejected ==
    (pc = "built" /\ StructurallyEmpty) =>
        (fit.status = "ValueError" /\ fit.message = "No exercises found")

---------------------------------------------------------------------------
(* The rest of a standalone exercise *)

\* the first value of a sequence that is not absent, absent when there is none
RECURSIVE FirstPresent(_, _)
FirstPresent(values, absent) ==
    IF Len(values) = 0 THEN absent
    ELSE IF Head(values) # absent THEN Head(values)
    ELSE FirstPresent(Tail(values), absent)

\* the first exercise of the first block stands alone, without warm-up sets,
\* and another block follows
StandaloneThenBlock ==
    /\ Len(blocks_json.blocks) = 2
    /\ Len(blocks_json.blocks[1].supersets) = 0
    /\ Len(blocks_json.blocks[1].exercises) = 1
    /\ ~HasWarmupSets(blocks_json.blocks[1].exercises[1])
    /\ blocks_json.blocks[1].exercises[1].sets # None
    /\ ~blocks_json.settings.workoutWarmup.enabled
    /\ ~blocks_json.blocks[1].warmup_enabled

\* the step that follows the exercise's working step is the rest r
\* ("none": no rest step follows)
RestIs(r) ==
    IF r.kind = "none" THEN steps[3].type # "rest"
    ELSE /\ steps[3].type = "rest"
         /\ IF r.kind = "button"
            THEN steps[3].duration_type = "lap_button" /\ steps[3].rest_seconds = 0
            ELSE steps[3].duration_type = "time" /\ steps[3].rest_seconds = r.seconds

---------------------------------------------------------------------------
(* The duration of an exercise step *)

\* the distance, in centimetres, that a textual reps value states
DistanceTexts == (S_500m :> 50000) @@ (S_2km :> 200000)

\* the lowest bound of a textual reps range, the upper bound of a reps_range
RangeLow == (S_8to12 :> 8)

RangeHigh == (S_6to8 :> 8)

\* the duration the priority order gives an exercise with lap-button mode
\* off; a distance_m or duration_sec of 0 counts as absent; value 0 stands
\* for a value the order does not fix
ExpectedDuration(exercise) ==
    IF Positive(exercise.distance_m)
    THEN [type |-> "distance", value |-> Val(exercise.distance_m) * 100]
    ELSE IF exercise.reps.kind = "str" /\ exercise.reps.str \in DOMAIN DistanceTexts
        THEN [type |-> "distance", value |-> DistanceTexts[exercise.reps.str]]
    ELSE IF Positive(exercise.duration_sec)
        THEN [type |-> "time", value |-> Val(exercise.duration_sec) * 1000]
    ELSE IF exercise.reps.kind = "int"
        THEN [type |-> "reps", value |-> exercise.reps.int]
    ELSE IF exercise.reps.kind = "str"
        THEN [type |-> "reps",
              value |-> IF exercise.reps.str \in DOMAIN RangeLow
                        THEN RangeLow[exercise.reps.str] ELSE 0]
    ELSE IF Len(exercise.reps_range) > 0
        THEN [type |-> "reps", value |-> RangeHigh[exercise.reps_range]]
    ELSE [type |-> "lap_button", value |-> 0]

\* the workout is one block holding one standalone exercise
OneExercise ==
    /\ Len(blocks_json.blocks) = 1
    /\ Len(blocks_json.blocks[1].supersets) = 0
    /\ Len(blocks_json.blocks[1].exercises) = 1

\* the working-set steps of the compiled list
WorkingSteps == {i \in ExerciseSteps : steps[i].intensity = "active"}

\* C8: with lap-button mode off, the working-set step of an exercise has the
\* one duration kind of the first signal present in the order: positive
\* distance_m (distance), a km/m pattern in textual reps (distance),
\* duration_sec (time), explicit reps (reps, the lowest bound of a textual
\* range), reps_range (reps, the upper bound), and lap-button when there is
\* none.
C8_DurationPriority ==
    (pc # "start" /\ ~use_lap_button /\ OneExercise) =>
        LET expected == ExpectedDuration(blocks_json.blocks[1].exercises[1])
        IN  /\ Cardinality(WorkingSteps) = 1
            /\ \A i \in WorkingSteps :
                /\ steps[i].duration_type = expected.type
                /\ expected.value # 0 => steps[i].duration_value = expected.value

\* an exercise that carries every signal but a positive distance_m: the
\* distance of its textual reps wins over duration_sec and reps_range
C8_Witness ==
    /\ pc = "compiled"
    /\ ~use_lap_button
    /\ OneExercise
    /\ blocks_json.blocks[1].exercises[1].distance_m = Some(0)
    /\ blocks_json.blocks[1].exercises[1].reps = RepsStr(S_2km)
    /\ blocks_json.blocks[1].exercises[1].duration_sec = Some(30)
    /\ blocks_json.blocks[1].exercises[1].reps_range = S_6to8
    /\ \E i \in WorkingSteps :
        steps[i].duration_type = "distance" /\ steps[i].duration_value = 200000

\* C9: with use_lap_button set, every exercise step of the compiled list has
\* the duration kind lap_button, whatever the exercise's reps, duration,
\* distance and warm-up-set fields.
C9_LapButtonEverywhere ==
    (pc # "start" /\ use_lap_button) =>
        \A i \in ExerciseSteps : steps[i].duration_type = "lap_button"


---------------------------------------------------------------------------
(* The sport of a set of categories *)

\* C11: detect_sport_type returns running (1, 0) iff the set is {32};
\* combined cardio (10, 26) iff the set holds 32, 2 or 23 and is not {32},
\* whatever else it holds; and strength (10, 20) for every other set, the
\* empty set included.
C11_SportDecisionTable ==
    (pc = "returned" /\ args.fn = "detect_sport_type") =>
        LET ids == args.category_ids
            sport == <<result.sport_id, result.sub_sport_id>>
            cardio == ids \cap {32, 2, 23} # {} /\ ids # {32}
        IN  /\ sport \in {<<1, 0>>, <<10, 26>>, <<10, 20>>}
            /\ sport = <<1, 0>> <=> ids = {32}
            /\ sport = <<10, 26>> <=> cardio
            /\ sport = <<10, 20>> <=> (ids # {32} /\ ~cardio)
            /\ ids = {} => sport = <<10, 20>>

\* a run with a strength category is classified as combined cardio
C11_Witness ==
    /\ pc = "returned"
    /\ args.fn = "detect_sport_type"
    /\ args.category_ids = {32, 28}
    /\ result.sport_id = 10
    /\ result.sub_sport_id = 26

---------------------------------------------------------------------------
(* The decompiler *)

\* the messages of the file as the second pass reads them
StepsRaw == [i \in 1..Len(fitfile.workout_step) |-> ReadWorkoutStep(fitfile.workout_step[i])]

\* message i (0-based) is an exercise: neither a rest nor a repeat
IsExerciseRecord(i) == ~StepsRaw[i + 1].is_rest /\ ~StepsRaw[i + 1].is_repeat

\* messages i, i + 1, i + 2 are an exercise, a rest and a repeat that points
\* at the exercise
ReferencedTriple(i) ==
    /\ i + 2 < Len(StepsRaw)
    /\ IsExerciseRecord(i)
    /\ StepsRaw[i + 2].is_rest
    /\ StepsRaw[i + 3].is_repeat
    /\ fitfile.workout_step[i + 3].duration_step = Some(i)

\* the display step of message i with the given number of sets
ShownAs(i, sets) ==
    [DisplayStep(StepsRaw, ReadExerciseTitles(fitfile.exercise_title), i) EXCEPT !.sets = sets]

RECURSIVE OnlyReferencedCollapsed(_)
OnlyReferencedCollapsed(i) ==
    IF i >= Len(StepsRaw) THEN <<>>
    ELSE IF ReferencedTriple(i)
        THEN <<ShownAs(i, StepsRaw[i + 3].repeat_count + 1)>> \o OnlyReferencedCollapsed(i + 3)
    ELSE IF StepsRaw[i + 1].is_repeat THEN OnlyReferencedCollapsed(i + 1)
    ELSE <<ShownAs(i, 1)>> \o OnlyReferencedCollapsed(i + 1)

\* C13: the decompiler collapses only the consecutive triples [exercise,
\* rest, repeat whose target is that exercise]; every other message that is
\* no repeat passes through unchanged, with sets = 1 and in file order, and
\* no repeat is shown.
C13_OnlyReferencedTriples ==
    pc = "parsed" => workout_data.steps = OnlyReferencedCollapsed(0)

---------------------------------------------------------------------------
(* The caller's workout *)

\* C14: blocks_to_steps leaves the caller's workout unchanged: after the
\* call every block, superset and exercise record has the fields and the
\* values it had before.
C14_WorkoutUnchanged == [][blocks_json' = blocks_json]_vars

---------------------------------------------------------------------------
(* Preview against build *)

\* the preview step p shows the compiled step s
Shows(p, s) ==
    /\ p.type = s.type
    /\ s.type \in {"exercise", "warmup"} =>
          (p.display_name = s.display_name /\ p.category_id = s.category_id)
    /\ s.type = "rest" => p.display_name = s.display_name
    /\ s.type = "repeat" =>
          (p.repeat_count = s.repeat_count /\ p.duration_step = s.duration_step)

\* C15: once get_preview_steps and build_fit_workout have both run on the
\* workout, in either order and any number of times, the preview list and
\* the step list of the build have the same length and agree, position by
\* position, in step type, display name, category id, repeat target and
\* repeat count.
C15_PreviewMatchesBuild ==
    (preview_steps # None /\ fit.status # "none") =>
        /\ Len(Val(preview_steps)) = Len(steps)
        /\ \A i \in 1..Len(steps) : Shows(Val(preview_steps)[i], steps[i])

\* a preview taken after a build, of a list with an exercise, a rest and a
\* repeat step
C15_Witness ==
    /\ pc = "previewed"
    /\ fit.status = "ok"
    /\ \E i, j, k \in 1..Len(Val(preview_steps)) :
        /\ Val(preview_steps)[i].type = "exercise"
        /\ Val(preview_steps)[j].type = "rest"
        /\ Val(preview_steps)[k].type = "repeat"
        /\ Val(preview_steps)[k].repeat_count = steps[k].repeat_count

\* a build run after a preview
C15_WitnessBuildAfter ==
    /\ pc = "built"
    /\ preview_steps # None
    /\ \E k \in 1..Len(steps) : steps[k].type = "repeat"

---------------------------------------------------------------------------
(* The strategies of the resolver *)

\* the strategies that hit for the normalized name, in the resolver's tables
HitsBuiltin(normalized) ==
    \E i \in 1..Len(builtin_keywords) : Contains(normalized, builtin_keywords[i].keyword)

HitsExact(normalized) ==
    \E i \in 1..Len(garmin_exercises.exercises) : garmin_exercises.exercises[i].key = normalized

HitsKeyword(normalized) ==
    \E i \in 1..Len(garmin_exercises.keywords) :
        Contains(normalized, garmin_exercises.keywords[i].keyword)

HitsSimilar(normalized) ==
    \E i \in 1..Len(garmin_exercises.exercises) :
        AboveThreshold(Ratio(normalized, garmin_exercises.exercises[i].key))

\* C16: find returns the result of the first strategy that hits, in the
\* order built-in keyword, exact dictionary key, secondary keyword,
\* similarity above 0.6, default; a name that holds a built-in keyword gets
\* the keyword's category even when it is an exact key of another category.
C16_FirstStrategyWins ==
    (pc = "returned" /\ args.fn = "find") =>
        LET n == normalize(args.exercise_name)
        IN  /\ result.match_type =
                  (IF HitsBuiltin(n) THEN "builtin_keyword"
                   ELSE IF HitsExact(n) THEN "exact"
                   ELSE IF HitsKeyword(n) THEN "keyword"
                   ELSE IF HitsSimilar(n) THEN "fuzzy"
                   ELSE "default")
            /\ HitsBuiltin(n) =>
                  \E i \in 1..Len(builtin_keywords) :
                      /\ Contains(n, builtin_keywords[i].keyword)
                      /\ result.category_id = builtin_keywords[i].category_id

\* "Run" resolved to the built-in keyword's Cardio (2) with the key "run" of
\* category 32 in the dictionary
C16_Witness ==
    /\ pc = "returned"
    /\ args.fn = "find"
    /\ args.exercise_name = S_Run
    /\ HitsExact(normalize(args.exercise_name))
    /\ result.match_type = "builtin_keyword"
    /\ result.category_id = 2

\* the exercises of the workout, in the order blocks_to_steps visits them
AllExercises(k) ==
    SupersetExercises(blocks_json.blocks[k].supersets, 1) \o blocks_json.blocks[k].exercises

\* C17: resolving a name raises no error: a name that no strategy matches
\* gets the default category (5) with match kind default, and blocks_to_steps
\* emits one working-set exercise step for every exercise of the input.
C17_UnknownNameDefaults ==
    /\ (pc = "returned" /\ args.fn = "find") =>
          LET n == normalize(args.exercise_name)
          IN  (~HitsBuiltin(n) /\ ~HitsExact(n) /\ ~HitsKeyword(n) /\ ~HitsSimilar(n))
              => (result.match_type = "default" /\ result.category_id = 5)
    /\ (pc = "compiled" /\ args.fn = "find") =>
          LET working == SelectSeq(steps, LAMBDA s : s.type = "exercise" /\ s.intensity = "active")
              given == AllExercises(1)
          IN  /\ Len(working) = Len(given)
              /\ \A i \in 1..Len(given) : working[i].original_name = given[i].name

\* a workout of two exercises of unknown name, compiled to two working
\* steps of the default category
C17_Witness ==
    /\ pc = "compiled"
    /\ args.fn = "find"
    /\ Len(blocks_json.blocks[1].exercises) = 2
    /\ \A i \in 1..2 : blocks_json.blocks[1].exercises[i].name = <<"X", "y", "z">>
    /\ Cardinality({i \in ExerciseSteps : steps[i].category_id = 5}) = 2

---------------------------------------------------------------------------
(* Category validation *)

C19_ValidateIdempotent ==
    [][(/\ pc = "returned"
        /\ args.fn = "validate_category_id"
        /\ args'.category_id = result) => result' = result]_vars

\* the id 38, remapped to 2, has been validated a second time
C19_Witness ==
    /\ pc = "returned"
    /\ args.fn = "validate_category_id"
    /\ args.given = 38
    /\ args.category_id = 2
    /\ result = 2

---------------------------------------------------------------------------
(* The exercises of a superset *)

\* the workout is one block holding one superset of two or more exercises
OneSuperset ==
    /\ Len(blocks_json.blocks) = 1
    /\ Len(blocks_json.blocks[1].supersets) = 1
    /\ Len(blocks_json.blocks[1].exercises) = 0
    /\ Len(blocks_json.blocks[1].supersets[1].exercises) >= 2

\* the working-set steps of the compiled list
WorkingSetSteps == {i \in ExerciseSteps : steps[i].intensity = "active"}

\* C20: between the step of the first exercise and the step of the last
\* exercise of a superset the compiled list holds no rest step and no repeat
\* step, whatever sets, rest and warm-up-set fields the exercises carry.
C20_SupersetBackToBack ==
    (pc # "start" /\ OneSuperset) =>
        \A i \in 1..Len(steps) :
            (/\ \E f \in WorkingSetSteps : f < i
             /\ \E l \in WorkingSetSteps : i < l)
            => steps[i].type \notin {"rest", "repeat"}

---------------------------------------------------------------------------
(* Where the exercises of the workout are in the compiled list *)

\* the exercises of superset s of block k, tagged with their place
SupersetTags(k, s) ==
    [e \in 1..Len(blocks_json.blocks[k].supersets[s].exercises) |->
        [block |-> k, superset |-> s, index |-> e,
         last |-> e = Len(blocks_json.blocks[k].supersets[s].exercises)]]

RECURSIVE SupersetsTags(_, _)
SupersetsTags(k, s) ==
    IF s > Len(blocks_json.blocks[k].supersets) THEN <<>>
    ELSE SupersetTags(k, s) \o SupersetsTags(k, s + 1)

\* the standalone exercises of block k; superset 0 stands for "none"
StandaloneTags(k) ==
    [e \in 1..Len(blocks_json.blocks[k].exercises) |->
        [block |-> k, superset |-> 0, index |-> e, last |-> e = Len(blocks_json.blocks[k].exercises)]]

\* every exercise of the workout, in the order blocks_to_steps visits them
RECURSIVE ExerciseTags(_)
ExerciseTags(k) ==
    IF k > Len(blocks_json.blocks) THEN <<>>
    ELSE SupersetsTags(k, 1) \o StandaloneTags(k) \o ExerciseTags(k + 1)

\* the working-set steps of the compiled list
IsWorking(i) == steps[i].type = "exercise" /\ steps[i].intensity = "active"

\* the position of the j-th working-set step
WorkingPosition(j) ==
    CHOOSE i \in 1..Len(steps) :
        IsWorking(i) /\ Cardinality({m \in 1..i : IsWorking(m)}) = j

IsRestAt(p) == p <= Len(steps) /\ steps[p].type = "rest"

\* the rest settings superset s of block k works with, its own or those it
\* inherits from the block and the workout
SupersetHasRest(k, s) ==
    LET block == blocks_json.blocks[k]
        default_rest_type ==
            IF blocks_json.settings.defaultRestType = "None" THEN "button"
            ELSE blocks_json.settings.defaultRestType
        sec == IF block.supersets[s].rest_between_sec # None
               THEN block.supersets[s].rest_between_sec
               ELSE BlockRestSec(block, blocks_json.settings.defaultRestSec)
        type == IF block.supersets[s].rest_type # "None" THEN block.supersets[s].rest_type
                ELSE BlockRestType(block, default_rest_type)
    IN  Positive(sec) \/ type = "button"

\* superset s of block k ends the program: last superset of the last block,
\* no standalone exercise after it, round count 1
EndsProgram(k, s) ==
    /\ k = Len(blocks_json.blocks)
    /\ s = Len(blocks_json.blocks[k].supersets)
    /\ blocks_json.blocks[k].exercises = <<>>
    /\ parse_structure(blocks_json.blocks[k].structure) = 1

\* the rest after block k follows the last working step of superset s
\* directly
BlockRestFollows(k, s) ==
    /\ k < Len(blocks_json.blocks)
    /\ s = Len(blocks_json.blocks[k].supersets)
    /\ blocks_json.blocks[k].exercises = <<>>
    /\ parse_structure(blocks_json.blocks[k].structure) = 1
    /\ Positive(blocks_json.blocks[k].rest_between_rounds_sec)

\* C21: a superset with a rest configured (positive seconds or button type)
\* has exactly one rest step after its last exercise, also at the end of a
\* block that is not the final one; only the last superset of the last
\* block, with nothing after it in the block and round count 1, has none.
C21_SupersetRest ==
    pc = "compiled" =>
        \A j \in 1..Len(ExerciseTags(1)) :
            LET tag == ExerciseTags(1)[j]
                p == WorkingPosition(j)
            IN  (tag.superset > 0 /\ tag.last /\ SupersetHasRest(tag.block, tag.superset)) =>
                    IF EndsProgram(tag.block, tag.superset)
                    THEN p = Len(steps)
                    ELSE /\ IsRestAt(p + 1)
                         /\ IsRestAt(p + 2) => BlockRestFollows(tag.block, tag.superset)

\* a superset with a 20 s rest that ends the first of two blocks: its last
\* exercise is followed by the rest, and a step of the next block follows
C21_Witness ==
    /\ pc = "compiled"
    /\ Len(blocks_json.blocks) = 2
    /\ Len(blocks_json.blocks[1].supersets) = 1
    /\ blocks_json.blocks[1].exercises = <<>>
    /\ blocks_json.blocks[1].supersets[1].rest_between_sec = Some(20)
    /\ parse_structure(blocks_json.blocks[1].structure) = 1
    /\ blocks_json.blocks[1].rest_between_rounds_sec = None
    /\ ~blocks_json.settings.workoutWarmup.enabled
    /\ ~blocks_json.blocks[1].warmup_enabled
    /\ steps[3].type = "exercise"
    /\ steps[4].type = "rest"
    /\ steps[4].rest_seconds = 20
    /\ Len(steps) > 4
    /\ steps[5].type = "exercise"

\* the last superset of the only block, round count 1: nothing after its
\* last exercise
C21_WitnessEnd ==
    /\ pc = "compiled"
    /\ Len(blocks_json.blocks) = 1
    /\ Len(blocks_json.blocks[1].supersets) = 2
    /\ SupersetHasRest(1, 2)
    /\ EndsProgram(1, 2)
    /\ steps[Len(steps)].type = "exercise"

---------------------------------------------------------------------------
(* The warm-up at the head of the list *)

\* step i is the global warm-up of the settings: five minutes of rowing
IsGlobalWarmup(i) ==
    /\ steps[i].type = "warmup"
    /\ steps[i].display_name = WARMUP_ACTIVITY_NAMES[blocks_json.settings.workoutWarmup.activity]
    /\ steps[i].duration_value = 1000 * Val(blocks_json.settings.workoutWarmup.durationSec)

\* step i is the default warm-up: open-ended, named "Warm-Up"
IsDefaultWarmup(i) ==
    /\ steps[i].type = "warmup"
    /\ steps[i].display_name = S_WarmUp
    /\ steps[i].duration_type = "5"
    /\ steps[i].duration_value = 0

\* step i is the warm-up block k declares
IsBlockWarmup(i, k) ==
    /\ steps[i].type = "warmup"
    /\ steps[i].display_name = WARMUP_ACTIVITY_NAMES[blocks_json.blocks[k].warmup_activity]
    /\ steps[i].duration_value = 1000 * Val(blocks_json.blocks[k].warmup_duration_sec)

FirstBlockWarmup == Len(blocks_json.blocks) > 0 /\ blocks_json.blocks[1].warmup_enabled

FirstBlockHasExercise ==
    /\ Len(blocks_json.blocks) > 0
    /\ Len(blocks_json.blocks[1].supersets) + Len(blocks_json.blocks[1].exercises) > 0

\* C22: with the global warm-up enabled the list starts with it and holds it
\* once; without it the list starts with one default open-ended warm-up,
\* unless the first block declares its own warm-up: then there is no default
\* step and the block's warm-up is the only warm-up before the first
\* exercise.
C22_WarmupAtHead ==
    pc = "compiled" =>
        IF blocks_json.settings.workoutWarmup.enabled
        THEN /\ IsGlobalWarmup(1)
             /\ Cardinality({i \in 1..Len(steps) : IsGlobalWarmup(i)}) = 1
             /\ \A i \in 1..Len(steps) : ~IsDefaultWarmup(i)
        ELSE IF ~FirstBlockWarmup
        THEN /\ IsDefaultWarmup(1)
             /\ Cardinality({i \in 1..Len(steps) : IsDefaultWarmup(i)}) = 1
        ELSE /\ \A i \in 1..Len(steps) : ~IsDefaultWarmup(i)
             /\ IsBlockWarmup(1, 1)
             /\ FirstBlockHasExercise =>
                    (steps[2].type = "exercise"
                     /\ \A i \in 2..WorkingPosition(1) : steps[i].type # "warmup")

\* the first block declares a warm-up and holds exercises, no global
\* warm-up: the list starts with the block's warm-up and the first exercise
C22_Witness ==
    /\ pc = "compiled"
    /\ ~blocks_json.settings.workoutWarmup.enabled
    /\ FirstBlockWarmup
    /\ FirstBlockHasExercise
    /\ IsBlockWarmup(1, 1)
    /\ steps[2].type = "exercise"
    /\ Len(blocks_json.blocks) = 2
    /\ blocks_json.blocks[2].warmup_enabled

\* the global warm-up ahead of a first block that declares its own
C22_WitnessGlobal ==
    /\ pc = "compiled"
    /\ blocks_json.settings.workoutWarmup.enabled
    /\ FirstBlockWarmup
    /\ IsGlobalWarmup(1)
    /\ IsBlockWarmup(2, 1)

---------------------------------------------------------------------------
(* The display name of an exercise step *)

\* the name and the match of the workout's first exercise
FirstName == blocks_json.blocks[1].exercises[1].name

FirstMatch == find(Val(_lookup), FirstName)

\* the working-set step of the workout's first exercise
FirstWorkingStep == steps[WorkingPosition(1)]

\* C23 as amended: the display name is the dictionary's canonical display
\* name when the match kind is exact (the input name when the entry has
\* none); otherwise the input name verbatim when it passes the
\* human-confirmed-name heuristic; otherwise the canonical display name the
\* resolver supplied with the match, and the category's generic label when
\* it supplied none.
C23_DisplayName ==
    pc = "compiled" =>
        FirstWorkingStep.display_name =
            (IF FirstMatch.match_type = "exact"
             THEN (IF FirstMatch.display_name # <<>> THEN FirstMatch.display_name
                   ELSE FirstName)
             ELSE IF _is_user_confirmed_name(FirstName) THEN FirstName
             ELSE IF FirstMatch.display_name # <<>> THEN FirstMatch.display_name
             ELSE FirstMatch.category_name)

\* C23 as stated: the dictionary's canonical display name when the match
\* kind is exact; otherwise the input name verbatim when it passes the
\* heuristic; otherwise the category's generic label.
C23_Original ==
    pc = "compiled" =>
        FirstWorkingStep.display_name =
            (IF FirstMatch.match_type = "exact" THEN FirstMatch.display_name
             ELSE IF _is_user_confirmed_name(FirstName) THEN FirstName
             ELSE FirstMatch.category_name)

\* "easy run": a built-in keyword match of a name that is not in title
\* case, shown as the keyword's "Run" and not as the category's "Cardio"
C23_Witness ==
    /\ pc = "compiled"
    /\ FirstName = <<"e", "a", "s", "y", " ", "r", "u", "n">>
    /\ FirstMatch.match_type = "builtin_keyword"
    /\ FirstMatch.category_name = S_Cardio
    /\ FirstWorkingStep.display_name = S_Run

\* "Leg Press": an exact match in title case, shown as the entry's "Press"
C23_WitnessExact ==
    /\ pc = "compiled"
    /\ FirstName = <<"L", "e", "g", " ", "P", "r", "e", "s", "s">>
    /\ FirstMatch.match_type = "exact"
    /\ FirstWorkingStep.display_name = S_Press

---------------------------------------------------------------------------
(* The rest after a standalone exercise of one set *)

\* the rest settings standalone exercise x of block k works with, its own
\* or those it inherits from the block and the workout
ExerciseHasRest(k, x) ==
    LET block == blocks_json.blocks[k]
        exercise == block.exercises[x]
        default_rest_type ==
            IF blocks_json.settings.defaultRestType = "None" THEN "button"
            ELSE blocks_json.settings.defaultRestType
        sec == IF exercise.rest_sec # None THEN exercise.rest_sec
               ELSE BlockRestSec(block, blocks_json.settings.defaultRestSec)
        type == IF exercise.rest_type # "None" THEN exercise.rest_type
                ELSE BlockRestType(block, default_rest_type)
    IN  Positive(sec) \/ type = "button"

\* the sets standalone exercise x of block k resolves to: its own, else the
\* block's round count
ResolvedSets(k, x) ==
    IF Truthy(blocks_json.blocks[k].exercises[x].sets)
    THEN Val(blocks_json.blocks[k].exercises[x].sets)
    ELSE parse_structure(blocks_json.blocks[k].structure)

\* the rest after block k is the step after the block's last exercise
BlockRestAfter(tag) ==
    /\ tag.last
    /\ tag.block < Len(blocks_json.blocks)
    /\ Positive(blocks_json.blocks[tag.block].rest_between_rounds_sec)

---------------------------------------------------------------------------
(* C25 *)

\* the compiled list ends with (exercise, rest, RepeatMarker with
\* repeat_count = n) and holds no other exercise step
CompiledTriple(n) ==
    /\ Len(steps) >= 3
    /\ steps[Len(steps) - 2].type = "exercise"
    /\ steps[Len(steps) - 1].type = "rest"
    /\ steps[Len(steps)].type = "repeat"
    /\ steps[Len(steps)].repeat_count = n
    /\ steps[Len(steps)].duration_step = Len(steps) - 3
    /\ \A i \in 1..(Len(steps) - 3) : steps[i].type \notin {"exercise", "repeat"}

\* the display steps parse_fit_file returned for working steps
ActiveDisplaySteps == {i \in 1..Len(workout_data.steps) : workout_data.steps[i].step_type = "active"}

\* C25: a standalone exercise compiled with sets = n >= 2 into (exercise,
\* rest, RepeatMarker with repeat_count = n) and read back from the built
\* file gives one display step with sets = n
C25_RoundTrip ==
    \A n \in 2..MaxSets :
        (/\ pc = "parsed"
         /\ OneStandalone
         /\ blocks_json.blocks[1].exercises[1].sets = Some(n)
         /\ CompiledTriple(n))
        => /\ Cardinality(ActiveDisplaySteps) = 1
           /\ \A i \in ActiveDisplaySteps : workout_data.steps[i].sets = n

\* what the code does instead: the display step carries sets = n + 1
C25_SetsPlusOne ==
    \A n \in 2..MaxSets :
        (/\ pc = "parsed"
         /\ OneStandalone
         /\ blocks_json.blocks[1].exercises[1].sets = Some(n)
         /\ CompiledTriple(n))
        => /\ Cardinality(ActiveDisplaySteps) = 1
           /\ \A i \in ActiveDisplaySteps : workout_data.steps[i].sets = n + 1

---------------------------------------------------------------------------
(* The ranges of the repeat steps *)

RepeatSteps == {i \in 1..Len(steps) : steps[i].type = "repeat"}

\* C26: the ranges of the repeat steps, each from the step's target index to
\* its own position, are pairwise disjoint: a later repeat step targets a
\* step after the earlier repeat step; also for an exercise with warm-up
\* sets in a superset of a block with round count above 1.
C26_DisjointRanges ==
    pc # "start" =>
        \A i, j \in RepeatSteps : i < j => steps[j].duration_step > i - 1

---------------------------------------------------------------------------
(* The end of the compiled list *)

\* C27: the last step of the list blocks_to_steps returns is never a rest
\* step, also when the final block is empty or an earlier block declares a
\* rest after the block.
C27_NoTrailingRest ==
    (pc = "compiled" /\ Len(steps) > 0) => steps[Len(steps)].type # "rest"

---------------------------------------------------------------------------
(* The exercise ids of a category *)

\* C28: in build_fit_workout two different (category_id, display_name)
\* pairs of one category never get the same exercise id, whether the id is
\* the resolver's movement id or comes from the category's counter: no two
\* title records share their (category, exercise id).
C28_DistinctIdsPerCategory ==
    (pc = "built" /\ fit.status = "ok") =>
        /\ \A t, u \in 1..Len(fit.exercise_titles) :
            (t # u /\ fit.exercise_titles[t].exercise_category
                        = fit.exercise_titles[u].exercise_category)
            => fit.exercise_titles[t].exercise_name # fit.exercise_titles[u].exercise_name
        /\ \A i, j \in ExerciseSteps :
            (steps[i].category_id = steps[j].category_id
             /\ steps[i].display_name # steps[j].display_name)
            => fit.workout_steps[i].exercise_name # fit.workout_steps[j].exercise_name

---------------------------------------------------------------------------
(* The step messages of a workout *)

---------------------------------------------------------------------------
(* C30 *)

\* the callers get_lookup has returned an object to
Served == {t \in 1..Len(callers) : callers[t].got # 0}

\* C30: in every interleaving of get_lookup, find and blocks_to_steps calls
\* the tables are loaded once, on first use, and every caller gets the same
\* resolver object
C30_LoadedOnce ==
    /\ Len(objects) <= 1
    /\ \A t \in Served, u \in Served : callers[t].got = callers[u].got

\* the part of C30 the code keeps: no call writes to the tables of an
\* object
C30_TablesReadOnly ==
    [][\A k \in 1..Len(objects) : objects'[k] = objects[k]]_vars

====
